---- MODULE Spec2Model ----
(***************************************************************************)
(* A model of android-wifi-mcp: the device registry (DeviceManager and     *)
(* AdbClient selection state, src/src/index.ts) and the file-based         *)
(* enterprise bridge protocol (src/src/adb/enterprise-wifi.ts) together    *)
(* with the on-device companion receiver (src/unnamed/part_001).           *)
(*                                                                         *)
(* Spec            the device registry: one action per registry operation, *)
(*                 the environment attaches and detaches devices.          *)
(* SpecEnterprise  one enterprise request at a time, one step per executor *)
(*                 command, interleaved with the companion agent.          *)
(* SpecEnterpriseFair  the same, every executor command returning.         *)
(* SpecOverlap     two enterprise requests in flight at once.              *)
(* SpecConcurrent  tool requests interleaving at their executor commands   *)
(*                 over the one shared device selection.                   *)
(* SpecExec        AdbClient.exec / shell over the outcomes of the spawned *)
(*                 command.                                                *)
(* SpecDns         NetworkCheck.dnsLookup, one step per tier.              *)
(***************************************************************************)
EXTENDS Integers, Naturals, Sequences, FiniteSets, TLC

\* ------------------------------------------------------------------------
\* Bounds
\* ------------------------------------------------------------------------
NumSerials == 2        \* how many distinct device serials exist
MaxPolls   == 2        \* length of the polling window, in poll intervals
MaxCalls   == 2        \* how many enterprise calls a behaviour contains
NumProcs   == 2        \* how many tool requests can be in flight at once
MaxText    == 2        \* longest text a spawned command writes to a stream
MaxLines   == 2        \* most lines in the output of nslookup

Serials == 1..NumSerials
Null    == 0           \* the null of `string | null`

\* Device['state'] values that `adb devices -l` prints (types.ts), and the
\* model's marker for a serial that is not attached at all.
States  == {"device", "offline", "unauthorized"}
Absent  == "absent"

VARIABLES
    \* ---- device registry ----
    attached,          \* environment: serial -> state or Absent
    selectedDevice,    \* AdbClient.selectedDevice
    devices,           \* DeviceManager.devices: cached serial -> DeviceInfo
    legitSel,          \* history: serials selected explicitly, or automatically
                       \*          while being the only ready device
    last,              \* history: the registry operation just completed
    \* ---- enterprise bridge ----
    pc,                \* position of the host inside the enterprise call
    req,               \* the request of the call in progress
    calls,             \* number of enterprise calls started
    cmdLog,            \* commands the call has issued to the executor, in order
    polls,             \* iterations of the polling loop done, one interval each
    cmdFile,           \* content of COMMAND_FILE on the device
    resFile,           \* content of RESULT_FILE on the device
    appInstalled,      \* is the companion package installed
    agent,             \* companion agent: requests it still has to answer
    got,               \* the parsed result a poll read has obtained
    ret,               \* what the call returned
    lost,              \* history: a result for this call was deleted unread
    staleAtTrigger,    \* history: RESULT_FILE existed when the trigger was issued
    execFailed,        \* history: some executor command of this call failed
    wroteInWindow,     \* history: the agent wrote this call's result in the window
    \* ---- overlapping enterprise requests ----
    hosts,             \* per request in flight: position, polls, result obtained
    \* ---- concurrent tool requests ----
    requests,          \* per request: the tool, its position, the serials targeted
    \* ---- command executor ----
    call,              \* the outcome of the spawned command of the last exec call
    result,            \* what the call returned to its caller
    \* ---- dnsLookup ----
    dnsPc,             \* position inside dnsLookup
    answer,            \* stdout lines of the nslookup command
    tiers,             \* the lookup commands issued, in order
    yields,            \* per tier issued: did it add an address
    addresses,         \* DnsResult.addresses
    dnsError,          \* DnsResult.error
    \* ---- checkInternet ----
    netPc,             \* position inside checkInternet
    probed,            \* the endpoint probes issued, in order, with outcomes
    pinged,            \* the fallback pings issued, with outcomes
    connectivity,      \* the ConnectivityResult returned
    \* ---- checkCaptivePortal ----
    capPc,             \* position inside checkCaptivePortal
    capCmds,           \* the commands issued, in order
    capProbe,          \* the outcome of the probe command
    capFetch,          \* the outcome of the content fetch
    portal,            \* the CaptivePortalResult returned
    \* ---- getDeviceInfo ----
    infoPc,            \* position inside getDeviceInfo
    reads,             \* the outcomes of the property reads done, in order
    info,              \* the DeviceInfo returned
    \* ---- scan results ----
    scanPc,            \* position inside getScanResults
    scanOut,           \* stdout of the list-scan-results command
    scanRecords,       \* the ScanResult records returned
    \* ---- getStatus ----
    statusPc,          \* position inside getStatus
    statusOut,         \* stdout of `cmd wifi status`
    dump,              \* stdout of the dumpsys command
    status,            \* the WifiStatus returned
    \* ---- interleaved refresh, saved networks, device listing, Wi-Fi tools ----
    refresh,           \* refreshDevices in flight: position, listing, reads
    saved,             \* listSavedNetworks: position, stdout, records
    listing,           \* AdbClient.listDevices: position, stdout, records
    wifi               \* a wifi_connect / wifi_disconnect request in flight

regVars == <<attached, selectedDevice, devices, legitSel, last>>
entVars == <<pc, req, calls, cmdLog, polls, cmdFile, resFile, appInstalled,
             agent, got, ret, lost, staleAtTrigger, execFailed, wroteInWindow>>
execVars == <<call, result>>
dnsVars == <<dnsPc, answer, tiers, yields, addresses, dnsError>>
netVars == <<netPc, probed, pinged, connectivity>>
capVars == <<capPc, capCmds, capProbe, capFetch, portal>>
infoVars == <<infoPc, reads, info>>
scanVars == <<scanPc, scanOut, scanRecords>>
statusVars == <<statusPc, statusOut, dump, status>>
probeVars == <<netVars, capVars, infoVars, scanVars, statusVars>>
opVars == <<refresh, saved, listing, wifi>>
auxVars == <<hosts, requests, execVars, dnsVars, probeVars, opVars>>
vars    == <<regVars, entVars, auxVars>>

\* ------------------------------------------------------------------------
\* Device registry (src/src/index.ts)
\* ------------------------------------------------------------------------

\* Every registry operation is one action (the whole handler, run without
\* interleaving); the environment changes the attached devices in between.
\* `last` holds the outcome of the operation that has just completed and is
\* cleared when the environment changes, so that a state predicate can relate
\* the outcome to the devices that were attached when the operation ran.

\* All orders in which the attached serials can be listed.
Orderings(S) ==
    { q \in [1..Cardinality(S) -> S] : \A i, j \in 1..Cardinality(S) :
                                          q[i] = q[j] => i = j }

\* AdbClient.listDevices: one Device record per attached serial.
ListDevices(att, order) ==
    [i \in 1..Len(order) |-> [serial |-> order[i], state |-> att[order[i]]]]

\* devices.filter(d => d.state === 'device')
ConnectedDevicesAnyState(list) == list
ConnectedDevices(list) == SelectSeq(list, LAMBDA d : d.state = "device")

SerialsOf(list) == { list[i].serial : i \in 1..Len(list) }

\* AdbClient.getDeviceInfo with a device selected: the record carries the
\* selected serial.
GetDeviceInfo(sel) == [serial |-> sel]

\* device.state === 'device' && !this.devices.has(device.serial)
NeedsQueryEvenIfCached(d, cache) == d.state = "device"
NeedsQuery(d, cache) == d.state = "device" /\ d.serial \notin DOMAIN cache

\* The first loop of refreshDevices: every ready device that is not cached is
\* selected, queried and cached.  Returns <<selection, cache>>.
RECURSIVE RefreshLoop(_, _, _, _)
RefreshLoop(list, i, sel, cache) ==
    IF i > Len(list) THEN <<sel, cache>>
    ELSE IF NeedsQuery(list[i], cache)
         THEN RefreshLoop(list, i + 1, list[i].serial,
                  cache @@ (list[i].serial :> GetDeviceInfo(list[i].serial)))
         ELSE RefreshLoop(list, i + 1, sel, cache)

\* The serials that loop queries (getDeviceInfo is awaited for each).
RECURSIVE QueriedBy(_, _, _)
QueriedBy(list, i, cache) ==
    IF i > Len(list) THEN {}
    ELSE IF NeedsQuery(list[i], cache)
         THEN {list[i].serial}
              \cup QueriedBy(list, i + 1,
                     cache @@ (list[i].serial :> GetDeviceInfo(list[i].serial)))
         ELSE QueriedBy(list, i + 1, cache)

\* DeviceManager.refreshDevices on a successful listing.
\* Returns <<selection, cache>>.
RefreshDevices(list, sel, cache) ==
    LET r         == RefreshLoop(list, 1, sel, cache)
        connected == SerialsOf(list)
        kept      == [s \in (DOMAIN r[2]) \cap connected |-> r[2][s]]
        sel2      == IF r[1] # Null /\ r[1] \notin connected THEN Null ELSE r[1]
    IN  <<sel2, kept>>

\* The outcome of the registry operation that has just completed.
\* refreshed: refreshDevices ran to completion inside the operation; cached:
\* the cache it found; queried: the serials it queried.
NoOp == [op |-> "none", selBefore |-> Null, kind |-> "none", serial |-> Null,
         names |-> {}, refreshed |-> FALSE, cached |-> << >>, queried |-> {}]

Refreshed(res, list, cache) ==
    [res EXCEPT !.refreshed = TRUE, !.cached = cache,
                !.queried = QueriedBy(list, 1, cache)]

ReadyNow    == { s \in Serials : attached[s] = "device" }
AttachedNow == { s \in Serials : attached[s] # Absent }

\* A serial selected by an operation other than an explicit select is
\* legitimately auto-selected when it is the only ready device there is.
LegitAfter(selBefore, selAfter) ==
    IF selAfter # Null /\ selAfter # selBefore /\ ReadyNow = {selAfter}
    THEN legitSel \cup {selAfter} ELSE legitSel

RegInit ==
    /\ attached = [s \in Serials |-> Absent]
    /\ selectedDevice = Null
    /\ devices = << >>
    /\ legitSel = {}
    /\ last = NoOp

\* Environment: a device is attached, detached or changes state.
Plug ==
    \E s \in Serials, st \in States \cup {Absent} :
        /\ attached[s] # st
        /\ attached' = [attached EXCEPT ![s] = st]
        /\ last' = NoOp
        /\ UNCHANGED <<selectedDevice, devices, legitSel, entVars, auxVars>>

\* DeviceManager.listDevices (device_list tool, /health, startup): the
\* listing throws when the devices command fails, else refreshDevices runs.
DeviceList ==
    \E order \in Orderings(AttachedNow), listOk \in BOOLEAN :
        LET list == ListDevices(attached, order)
            r    == RefreshDevices(list, selectedDevice, devices)
        IN  /\ IF listOk
               THEN /\ selectedDevice' = r[1]
                    /\ devices' = r[2]
                    /\ legitSel' = LegitAfter(selectedDevice, r[1])
               ELSE UNCHANGED <<selectedDevice, devices, legitSel>>
            /\ last' = LET res == [NoOp EXCEPT !.op = "list",
                                                !.selBefore = selectedDevice,
                                                !.kind = IF listOk THEN "ok"
                                                         ELSE "listfail"]
                        IN  IF listOk THEN Refreshed(res, list, devices) ELSE res
            /\ UNCHANGED <<attached, entVars, auxVars>>

\* device_select tool: DeviceManager.selectDevice, then getSelectedDeviceInfo
\* (which, with a device selected, changes nothing).
DeviceSelect ==
    \E s \in Serials :
        /\ selectedDevice' = s
        /\ legitSel' = legitSel \cup {s}
        /\ last' = [NoOp EXCEPT !.op = "select", !.selBefore = selectedDevice,
                                !.kind = "ok", !.serial = s]
        /\ UNCHANGED <<attached, devices, entVars, auxVars>>

\* DeviceManager.ensureDeviceSelected.
EnsureDeviceSelected ==
    \E order \in Orderings(AttachedNow), listOk \in BOOLEAN :
        LET list == ListDevices(attached, order)
            r    == RefreshDevices(list, selectedDevice, devices)
            conn == ConnectedDevices(list)
            res  == [NoOp EXCEPT !.op = "ensure", !.selBefore = selectedDevice]
        IN  /\ IF selectedDevice # Null
               THEN /\ last' = [res EXCEPT !.kind = "ok", !.serial = selectedDevice]
                    /\ UNCHANGED <<selectedDevice, devices, legitSel>>
               ELSE IF ~listOk
               THEN /\ last' = [res EXCEPT !.kind = "listfail"]
                    /\ UNCHANGED <<selectedDevice, devices, legitSel>>
               ELSE IF Len(conn) = 0
               THEN /\ last' = [Refreshed(res, list, devices)
                                    EXCEPT !.kind = "nodevice"]
                    /\ selectedDevice' = r[1]
                    /\ devices' = r[2]
                    /\ legitSel' = LegitAfter(selectedDevice, r[1])
               ELSE IF Len(conn) > 1
               THEN /\ last' = [Refreshed(res, list, devices)
                                    EXCEPT !.kind = "ambiguous",
                                           !.names = SerialsOf(conn)]
                    /\ selectedDevice' = r[1]
                    /\ devices' = r[2]
                    /\ legitSel' = LegitAfter(selectedDevice, r[1])
               ELSE /\ last' = [Refreshed(res, list, devices)
                                    EXCEPT !.kind = "ok", !.serial = conn[1].serial]
                    /\ selectedDevice' = conn[1].serial
                    /\ devices' = r[2]
                    /\ legitSel' = LegitAfter(selectedDevice, conn[1].serial)
            /\ UNCHANGED <<attached, entVars, auxVars>>

\* AdbClient.getDeviceInfo reached with whatever is selected (device_select and
\* device_info call it through getSelectedDeviceInfo): without a selection it
\* lists the devices and selects the only ready one.
GetSelectedDeviceInfo ==
    \E order \in Orderings(AttachedNow), listOk \in BOOLEAN :
        LET list == ListDevices(attached, order)
            conn == ConnectedDevices(list)
            res  == [NoOp EXCEPT !.op = "info", !.selBefore = selectedDevice]
        IN  /\ IF selectedDevice # Null
               THEN /\ last' = [res EXCEPT !.kind = "ok", !.serial = selectedDevice]
                    /\ UNCHANGED <<selectedDevice, legitSel>>
               ELSE IF ~listOk
               THEN /\ last' = [res EXCEPT !.kind = "listfail"]
                    /\ UNCHANGED <<selectedDevice, legitSel>>
               ELSE IF Len(conn) = 0
               THEN /\ last' = [res EXCEPT !.kind = "nodevice"]
                    /\ UNCHANGED <<selectedDevice, legitSel>>
               ELSE IF Len(conn) > 1
               THEN /\ last' = [res EXCEPT !.kind = "ambiguous"]
                    /\ UNCHANGED <<selectedDevice, legitSel>>
               ELSE /\ last' = [res EXCEPT !.kind = "ok", !.serial = conn[1].serial]
                    /\ selectedDevice' = conn[1].serial
                    /\ legitSel' = LegitAfter(selectedDevice, conn[1].serial)
            /\ UNCHANGED <<attached, devices, entVars, auxVars>>

\* ------------------------------------------------------------------------
\* Enterprise bridge (src/src/adb/enterprise-wifi.ts) and the companion
\* receiver (src/unnamed/part_001)
\* ------------------------------------------------------------------------
\* The host takes one step per executor command (each is awaited); the agent's
\* steps interleave freely with them.  adb.shell never raises: a command
\* either succeeds, with its effect on the device, or returns success=false,
\* modelled as having had no effect.  polls counts the iterations of the
\* polling loop; each sleeps one poll interval, so a window of MaxPolls
\* intervals admits MaxPolls reads.  Request ids are the call numbers 1..calls;
\* they exist in the model only, neither file carries one.
COMPANION_PACKAGE == "com.example.wifimcpcompanion"

NoCommand == -1        \* COMMAND_FILE does not exist
NoFile == [kind |-> "nofile", from |-> 0, valid |-> FALSE, success |-> FALSE,
           pre |-> FALSE]
\* File content: `from` is the request whose trigger produced it (0: content
\* left by an earlier, unrelated exchange), `valid` whether the text is
\* non-empty and parses as JSON, `success` the result's success flag, `pre`
\* (history) whether it was in place when the current call's trigger was issued.
Content(from, valid, success) ==
    [kind |-> "file", from |-> from, valid |-> valid, success |-> success,
     pre |-> FALSE]
StaleContents ==
    { Content(0, TRUE, TRUE), Content(0, TRUE, FALSE), Content(0, FALSE, FALSE) }

\* Requests: a field is TRUE when the caller supplied it.  Fields the method
\* does not look at are left out (FALSE).
Requests ==
    [action : {"connect_enterprise"}, eapMethod : {"peap", "ttls"},
     password : BOOLEAN, clientCertificate : {FALSE}, privateKey : {FALSE}]
    \cup
    [action : {"connect_enterprise"}, eapMethod : {"tls"},
     password : {FALSE}, clientCertificate : BOOLEAN, privateKey : BOOLEAN]
    \cup
    [action : {"install_certificate"}, eapMethod : {"none"},
     password : {FALSE}, clientCertificate : {FALSE}, privateKey : {FALSE}]
NoReq == [action |-> "none", eapMethod |-> "none", password |-> FALSE,
          clientCertificate |-> FALSE, privateKey |-> FALSE]

NoRet == [kind |-> "none", success |-> FALSE, from |-> 0, stale |-> FALSE,
          error |-> "", pkg |-> ""]
Failure(kind, error) == [NoRet EXCEPT !.kind = kind, !.error = error]

\* connectEnterprise, validation of the method-specific fields.
PasswordMissing(c) ==
    c.eapMethod \in {"peap", "ttls"} /\ ~c.password
TlsMaterialMissingBoth(c) ==
    c.eapMethod = "tls" /\ (~c.clientCertificate /\ ~c.privateKey)
TlsMaterialMissing(c) ==
    c.eapMethod = "tls" /\ (~c.clientCertificate \/ ~c.privateKey)
Invalid(c) ==
    c.action = "connect_enterprise" /\ (PasswordMissing(c) \/ TlsMaterialMissing(c))

TimeoutMessage(c) ==
    IF c.action = "connect_enterprise"
    THEN "Timeout waiting for connection result"
    ELSE "Timeout waiting for certificate installation result"

EntInit ==
    /\ pc = "idle"
    /\ req = NoReq
    /\ calls = 0
    /\ cmdLog = << >>
    /\ polls = 0
    /\ cmdFile \in {NoCommand, 0}
    /\ resFile \in {NoFile} \cup StaleContents
    /\ appInstalled \in BOOLEAN
    /\ agent = [i \in 1..MaxCalls |-> [stage |-> "none", cfg |-> 0]]
    /\ got = NoFile
    /\ ret = NoRet
    /\ lost = FALSE
    /\ staleAtTrigger = FALSE
    /\ execFailed = FALSE
    /\ wroteInWindow = FALSE

\* Is the host still going to read the result file at least once more?
InWindow == pc = "clear" \/ (pc = "poll" /\ polls < MaxPolls)

\* Does the file hold a parsable result produced for request id?
HoldsResultFor(f, id) == f.kind = "file" /\ f.valid /\ f.from = id

\* The error of a request that fails validation.
ValidationMessage(c) ==
    IF c.eapMethod = "tls"
    THEN "Client certificate and private key are required for EAP-TLS"
    ELSE "Password is required for EAP-PEAP/TTLS"

\* A call starts: connectEnterprise validates before any I/O, installCertificate
\* does not validate.
Start ==
    \E c \in Requests :
        /\ pc \in {"idle", "done"}
        /\ calls < MaxCalls
        /\ calls' = calls + 1
        /\ req' = c
        /\ cmdLog' = << >>
        /\ polls' = 0
        /\ got' = NoFile
        /\ lost' = FALSE
        /\ staleAtTrigger' = FALSE
        /\ execFailed' = FALSE
        /\ wroteInWindow' = FALSE
        /\ IF Invalid(c)
           THEN /\ pc' = "done"
                /\ ret' = Failure("validation", ValidationMessage(c))
           ELSE /\ pc' = "query"
                /\ ret' = NoRet
        /\ UNCHANGED <<regVars, auxVars, cmdFile, resFile, appInstalled, agent>>

\* result.stdout.includes(COMPANION_PACKAGE): the listing names the package
\* when it is installed and the command delivered its output.
PackageSeenWhenCommandRan(installed, ok) == ok
PackageSeen(installed, ok) == installed /\ ok

\* if (!broadcastResult.success) return failure; else waitForResult.
AfterBroadcastIgnoringFailure(ok) == "clear"
AfterBroadcast(ok) == IF ok THEN "clear" ELSE "done"

\* isCompanionAppInstalled and the check of its answer.
IsCompanionAppInstalled ==
    \E failed \in BOOLEAN : LET ok == ~failed IN
        /\ pc = "query"
        /\ cmdLog' = Append(cmdLog, "pm")
        /\ execFailed' = (execFailed \/ ~ok)
        /\ IF PackageSeen(appInstalled, ok)
           THEN pc' = "write" /\ ret' = ret
           ELSE /\ pc' = "done"
                /\ ret' = [Failure("notinstalled", "Companion app not installed")
                             EXCEPT !.pkg = COMPANION_PACKAGE]
        /\ UNCHANGED <<regVars, auxVars, req, calls, polls, cmdFile, resFile, appInstalled, agent,
                       got, lost, staleAtTrigger, wroteInWindow>>

\* writeCommandFile: the outcome of the shell command is not inspected.
WriteCommandFile ==
    \E failed \in BOOLEAN : LET ok == ~failed IN
        /\ pc = "write"
        /\ cmdLog' = Append(cmdLog, "write")
        /\ execFailed' = (execFailed \/ ~ok)
        /\ cmdFile' = IF ok THEN calls ELSE cmdFile
        /\ pc' = "trigger"
        /\ UNCHANGED <<regVars, auxVars, req, calls, polls, resFile, appInstalled, agent, got, ret,
                       lost, staleAtTrigger, wroteInWindow>>

\* The am broadcast command; on success the receiver has the intent.
Trigger ==
    \E failed \in BOOLEAN : LET ok == ~failed IN
        /\ pc = "trigger"
        /\ cmdLog' = Append(cmdLog, "broadcast")
        /\ execFailed' = (execFailed \/ ~ok)
        /\ staleAtTrigger' = (resFile.kind = "file")
        /\ resFile' = IF resFile.kind = "file"
                      THEN [resFile EXCEPT !.pre = TRUE] ELSE resFile
        /\ agent' = IF ok THEN [agent EXCEPT ![calls] = [stage |-> "recv", cfg |-> 0]]
                     ELSE agent
        /\ pc' = AfterBroadcast(ok)
        /\ ret' = IF ok THEN ret
                  ELSE Failure("broadcastfail", "Failed to send broadcast")
        /\ UNCHANGED <<regVars, auxVars, req, calls, polls, cmdFile, appInstalled, got,
                       lost, wroteInWindow>>

\* waitForResult, before the loop: startTime is taken, then rm -f RESULT_FILE.
ClearResultFile ==
    \E failed \in BOOLEAN : LET ok == ~failed IN
        /\ pc = "clear"
        /\ cmdLog' = Append(cmdLog, "rm")
        /\ execFailed' = (execFailed \/ ~ok)
        /\ resFile' = IF ok THEN NoFile ELSE resFile
        /\ lost' = (lost \/ (ok /\ HoldsResultFor(resFile, calls)))
        /\ polls' = 0
        /\ pc' = "poll"
        /\ UNCHANGED <<regVars, auxVars, req, calls, cmdFile, appInstalled, agent, got, ret,
                       staleAtTrigger, wroteInWindow>>

\* `Date.now() - startTime < RESULT_TIMEOUT`, after p intervals have passed.
WithinTimeoutOneMore(p) == p <= MaxPolls
WithinTimeout(p) == p < MaxPolls

\* `result.success && result.stdout.trim()` and JSON.parse does not throw: the
\* cat command succeeded and the file holds text that parses.
ReadYieldsAnyOutput(ok, f) == ok /\ f.kind = "file"
ReadYieldsResult(ok, f) == ok /\ f.kind = "file" /\ f.valid

\* One iteration of the polling loop: sleep one interval, cat RESULT_FILE,
\* leave the loop when the output is non-empty and parses.
PollResultFile ==
    \E failed \in BOOLEAN : LET ok == ~failed IN
        /\ pc = "poll"
        /\ WithinTimeout(polls)
        /\ cmdLog' = Append(cmdLog, "cat")
        /\ execFailed' = (execFailed \/ ~ok)
        /\ polls' = polls + 1
        /\ IF ReadYieldsResult(ok, resFile)
           THEN got' = resFile /\ pc' = "cleanup"
           ELSE got' = got /\ pc' = "poll"
        /\ UNCHANGED <<regVars, auxVars, req, calls, cmdFile, resFile, appInstalled, agent, ret,
                       lost, staleAtTrigger, wroteInWindow>>

\* After a successful parse: rm -f RESULT_FILE, return the parsed result.
CleanupResultFile ==
    \E failed \in BOOLEAN : LET ok == ~failed IN
        /\ pc = "cleanup"
        /\ cmdLog' = Append(cmdLog, "rm")
        /\ execFailed' = (execFailed \/ ~ok)
        /\ resFile' = IF ok THEN NoFile ELSE resFile
        /\ lost' = (lost \/ (ok /\ HoldsResultFor(resFile, calls) /\ resFile # got))
        /\ ret' = [NoRet EXCEPT !.kind = "delivered", !.success = got.success,
                                !.from = got.from, !.stale = got.pre]
        /\ pc' = "done"
        /\ UNCHANGED <<regVars, auxVars, req, calls, polls, cmdFile, appInstalled, agent, got,
                       staleAtTrigger, wroteInWindow>>

\* `return result || { ...timeout failure }`: the call ends.
AfterTimeoutRetrying == "write"
AfterTimeout == "done"

\* The loop condition fails: waitForResult returns null and the caller
\* substitutes the timeout failure.
TimedOut ==
    /\ pc = "poll"
    /\ ~WithinTimeout(polls)
    /\ ret' = Failure("timeout", TimeoutMessage(req))
    /\ pc' = AfterTimeout
    /\ UNCHANGED <<regVars, auxVars, req, calls, cmdLog, polls, cmdFile, resFile, appInstalled,
                   agent, got, lost, staleAtTrigger, execFailed, wroteInWindow>>

\* AdbBridgeReceiver.onReceive: the handler reads the command file.
AgentReadConfig ==
    \E i \in 1..MaxCalls :
        /\ agent[i].stage = "recv"
        /\ agent' = [agent EXCEPT ![i] = [stage |-> "work", cfg |-> cmdFile]]
        /\ UNCHANGED <<regVars, auxVars, pc, req, calls, cmdLog, polls, cmdFile, resFile,
                       appInstalled, got, ret, lost, staleAtTrigger, execFailed,
                       wroteInWindow>>

\* AdbBridgeReceiver.writeResult, first half: writeText has truncated the
\* file and the text is not complete yet.
AgentTruncate ==
    \E i \in 1..MaxCalls :
        /\ agent[i].stage = "work"
        /\ agent' = [agent EXCEPT ![i].stage = "writing"]
        /\ resFile' = Content(i, FALSE, FALSE)
        /\ UNCHANGED <<regVars, auxVars, pc, req, calls, cmdLog, polls, cmdFile, appInstalled, got,
                       ret, lost, staleAtTrigger, execFailed, wroteInWindow>>

\* AdbBridgeReceiver.writeResult: the complete result text is in the file.
AgentWriteResult ==
    \E i \in 1..MaxCalls, success \in BOOLEAN :
        /\ agent[i].stage \in {"work", "writing"}
        /\ agent[i].cfg = NoCommand => ~success
        /\ agent' = [agent EXCEPT ![i].stage = "done"]
        /\ resFile' = Content(i, TRUE, success)
        /\ wroteInWindow' = (wroteInWindow \/ (i = calls /\ InWindow))
        /\ UNCHANGED <<regVars, auxVars, pc, req, calls, cmdLog, polls, cmdFile, appInstalled, got,
                       ret, lost, staleAtTrigger, execFailed>>

NextEnterprise ==
    \/ Start
    \/ IsCompanionAppInstalled
    \/ WriteCommandFile
    \/ Trigger
    \/ ClearResultFile
    \/ PollResultFile
    \/ CleanupResultFile
    \/ TimedOut
    \/ AgentReadConfig
    \/ AgentTruncate
    \/ AgentWriteResult

Next ==
    \/ Plug
    \/ DeviceList
    \/ DeviceSelect
    \/ EnsureDeviceSelected
    \/ GetSelectedDeviceInfo

\* ------------------------------------------------------------------------
\* Overlapping enterprise requests (src/src/adb/enterprise-wifi.ts)
\* ------------------------------------------------------------------------

\* connectEnterprise and installCertificate are async methods of one object
\* and hold no lock: a second request can start while the first awaits an
\* executor command or sleeps in its polling loop.  Every request uses the
\* module constants COMMAND_FILE and RESULT_FILE, so the requests in flight
\* share cmdFile and resFile, and the agent answers each broadcast through
\* the same RESULT_FILE.  Request h is the one whose broadcast starts agent
\* job h.  The requests have passed validation.  Two requests are in flight.
Overlapping == {1, 2}

\* History: saw, what the request's last successful read found; overlapped,
\* the request for which the result it took was produced was itself inside
\* waitForResult at that moment.
NoHost == [pc |-> "idle", polls |-> 0, saw |-> NoFile, got |-> NoFile,
           ret |-> NoRet, overlapped |-> FALSE]

\* Is request k inside waitForResult?
Waiting(k) == k \in Overlapping /\ hosts[k].pc \in {"clear", "poll"}

OverlapIdle == hosts = [h \in Overlapping |-> NoHost]

OverlapInit ==
    /\ pc = "idle" /\ req = NoReq /\ calls = 0 /\ cmdLog = << >> /\ polls = 0
    /\ cmdFile = NoCommand /\ resFile = NoFile /\ appInstalled = TRUE
    /\ agent = [i \in 1..MaxCalls |-> [stage |-> "none", cfg |-> 0]]
    /\ got = NoFile /\ ret = NoRet /\ lost = FALSE /\ staleAtTrigger = FALSE
    /\ execFailed = FALSE /\ wroteInWindow = FALSE
    /\ OverlapIdle

overlapFrame ==
    <<regVars, requests, execVars, dnsVars, probeVars, opVars, pc, req, calls, cmdLog, polls,
      appInstalled, got, ret, lost, staleAtTrigger, execFailed, wroteInWindow>>

\* The poll of request h leaves the loop on any text that parses: the parsed
\* value is not compared with anything of the request.
TakesOwnResult(h, ok, f) == ReadYieldsResult(ok, f) /\ f.from = h
TakesResult(h, ok, f) == ReadYieldsResult(ok, f)

\* A request arrives.
OverlapStart(h) ==
    /\ hosts[h].pc = "idle"
    /\ hosts' = [hosts EXCEPT ![h].pc = "query"]
    /\ UNCHANGED <<overlapFrame, cmdFile, resFile, agent>>

\* isCompanionAppInstalled and the check of its answer.
OverlapQuery(h) ==
    \E failed \in BOOLEAN : LET ok == ~failed IN
        /\ hosts[h].pc = "query"
        /\ hosts' = [hosts EXCEPT ![h] =
              IF PackageSeen(appInstalled, ok)
              THEN [@ EXCEPT !.pc = "write"]
              ELSE [@ EXCEPT !.pc = "done",
                             !.ret = [Failure("notinstalled",
                                              "Companion app not installed")
                                        EXCEPT !.pkg = COMPANION_PACKAGE]]]
        /\ UNCHANGED <<overlapFrame, cmdFile, resFile, agent>>

\* writeCommandFile: request h's config replaces whatever COMMAND_FILE held.
OverlapWrite(h) ==
    \E failed \in BOOLEAN : LET ok == ~failed IN
        /\ hosts[h].pc = "write"
        /\ cmdFile' = IF ok THEN h ELSE cmdFile
        /\ hosts' = [hosts EXCEPT ![h].pc = "trigger"]
        /\ UNCHANGED <<overlapFrame, resFile, agent>>

\* The am broadcast command of request h.
OverlapTrigger(h) ==
    \E failed \in BOOLEAN : LET ok == ~failed IN
        /\ hosts[h].pc = "trigger"
        /\ agent' = IF ok THEN [agent EXCEPT ![h] = [stage |-> "recv", cfg |-> 0]]
                     ELSE agent
        /\ hosts' = [hosts EXCEPT ![h] =
              [@ EXCEPT !.pc = AfterBroadcast(ok),
                        !.ret = IF ok THEN @
                                ELSE Failure("broadcastfail",
                                             "Failed to send broadcast")]]
        /\ UNCHANGED <<overlapFrame, cmdFile, resFile>>

\* waitForResult of request h, before the loop: rm -f RESULT_FILE.
OverlapClear(h) ==
    \E failed \in BOOLEAN : LET ok == ~failed IN
        /\ hosts[h].pc = "clear"
        /\ resFile' = IF ok THEN NoFile ELSE resFile
        /\ hosts' = [hosts EXCEPT ![h] = [@ EXCEPT !.pc = "poll", !.polls = 0]]
        /\ UNCHANGED <<overlapFrame, cmdFile, agent>>

\* One iteration of the polling loop of request h.
OverlapPoll(h) ==
    \E failed \in BOOLEAN : LET ok == ~failed IN
        /\ hosts[h].pc = "poll"
        /\ WithinTimeout(hosts[h].polls)
        /\ hosts' = [hosts EXCEPT ![h] =
              [@ EXCEPT !.polls = @ + 1,
                        !.saw = IF ok THEN resFile ELSE @,
                        !.got = IF TakesResult(h, ok, resFile) THEN resFile ELSE @,
                        !.overlapped = TakesResult(h, ok, resFile)
                                       /\ Waiting(resFile.from),
                        !.pc = IF TakesResult(h, ok, resFile)
                               THEN "cleanup" ELSE "poll"]]
        /\ UNCHANGED <<overlapFrame, cmdFile, resFile, agent>>

\* After a successful parse: rm -f RESULT_FILE, return the parsed result.
OverlapCleanup(h) ==
    \E failed \in BOOLEAN : LET ok == ~failed IN
        /\ hosts[h].pc = "cleanup"
        /\ resFile' = IF ok THEN NoFile ELSE resFile
        /\ hosts' = [hosts EXCEPT ![h] =
              [@ EXCEPT !.pc = "done",
                        !.ret = [NoRet EXCEPT !.kind = "delivered",
                                              !.success = hosts[h].got.success,
                                              !.from = hosts[h].got.from]]]
        /\ UNCHANGED <<overlapFrame, cmdFile, agent>>

\* The loop condition of request h fails: the timeout failure is returned.
OverlapTimedOut(h) ==
    /\ hosts[h].pc = "poll"
    /\ ~WithinTimeout(hosts[h].polls)
    /\ hosts' = [hosts EXCEPT ![h] =
          [@ EXCEPT !.pc = AfterTimeout,
                    !.ret = Failure("timeout",
                                    "Timeout waiting for connection result")]]
    /\ UNCHANGED <<overlapFrame, cmdFile, resFile, agent>>

NextOverlap ==
    \/ \E h \in Overlapping :
          \/ OverlapStart(h) \/ OverlapQuery(h) \/ OverlapWrite(h)
          \/ OverlapTrigger(h) \/ OverlapClear(h) \/ OverlapPoll(h)
          \/ OverlapCleanup(h) \/ OverlapTimedOut(h)
    \/ AgentReadConfig
    \/ AgentTruncate
    \/ AgentWriteResult

\* ------------------------------------------------------------------------
\* Concurrent tool requests (src/src/index.ts, src/src/adb/wifi-commands.ts)
\* ------------------------------------------------------------------------

\* The tool handlers are async functions of one server object: a handler runs
\* until its next await, and every executor command is an await, so requests
\* in flight interleave at their commands.  AdbClient.exec reads
\* this.selectedDevice when it builds the command line, so the serial a
\* command is directed at is the selection at the moment it is issued.  The
\* registry is in a steady state here: every serial attached, ready and
\* cached, one of them selected, so ensureDeviceSelected returns at once.
Procs == 1..NumProcs

\* AdbClient.getDeviceInfo: the property reads of one device-info query.
GetProps ==
    <<"ro.product.model", "ro.product.brand", "ro.product.manufacturer",
      "ro.build.version.release", "ro.build.version.sdk", "ro.build.id">>

\* WifiCommands.getStatus: two commands, whose outcome is not looked at.
GetStatus == <<"cmd wifi status", "dumpsys wifi">>

\* The executor commands a request issues when none of them ends it early.
\* wifi_connect: connect, its verification, the handler's own status query.
Commands(tool) ==
    CASE tool = "wifi_connect"    -> <<"connect-network">> \o GetStatus \o GetStatus
      [] tool = "wifi_disconnect" -> <<"set-wifi-enabled disabled",
                                       "set-wifi-enabled enabled">>
      [] tool = "wifi_forget"     -> GetStatus \o <<"list-networks", "forget-network">>
      [] tool = "device_select"   -> GetProps
      [] OTHER                    -> << >>

\* After how many commands the request can end early: connect-network failed
\* or the verification did not find the network connected; disabling failed;
\* not connected, or the saved network was not listed.
EarlyExit(tool) ==
    CASE tool = "wifi_connect"    -> {1, 3}
      [] tool = "wifi_disconnect" -> {1}
      [] tool = "wifi_forget"     -> {2, 3}
      [] OTHER                    -> {}

\* The tools that change the Wi-Fi state of the device.
Mutating == {"wifi_connect", "wifi_disconnect", "wifi_forget"}

\* pos: commands issued; targets: the serials they were directed at; ended:
\* the last command issued was the request's last.  History: within, the
\* state-mutating requests that had begun and not ended on the same serial
\* when this request issued its first command; interleaved, a command of
\* this request was issued after the first command of a request that began
\* within it.
NoRequest == [tool |-> "none", pos |-> 0, targets |-> {}, ended |-> FALSE,
              within |-> {}, interleaved |-> FALSE]

ConcurrentIdle == requests = [p \in Procs |-> NoRequest]

ConcurrentInit ==
    /\ attached = [s \in Serials |-> "device"]
    /\ selectedDevice \in Serials
    /\ devices = [s \in Serials |-> GetDeviceInfo(s)]
    /\ legitSel = {selectedDevice}
    /\ last = NoOp
    /\ ConcurrentIdle

concurrentFrame ==
    <<attached, devices, last, entVars, hosts, execVars, dnsVars, probeVars,
      opVars>>

\* A Wi-Fi tool request arrives: ensureDevice finds a selection and returns.
ToolStart(p) ==
    \E tool \in Mutating :
        /\ requests[p].tool = "none"
        /\ selectedDevice # Null
        /\ requests' = [requests EXCEPT ![p] = [NoRequest EXCEPT !.tool = tool]]
        /\ UNCHANGED <<selectedDevice, legitSel, concurrentFrame>>

\* device_select arrives: DeviceManager.selectDevice sets the selection before
\* the handler's first await; getSelectedDeviceInfo then reads the properties.
DeviceSelectStart(p) ==
    \E s \in Serials :
        /\ requests[p].tool = "none"
        /\ selectedDevice' = s
        /\ legitSel' = legitSel \cup {s}
        /\ requests' = [requests EXCEPT
                           ![p] = [NoRequest EXCEPT !.tool = "device_select"]]
        /\ UNCHANGED concurrentFrame

\* Is request q in the middle of a state-mutating sequence on serial s?
OpenOn(q, s) ==
    /\ requests[q].tool \in Mutating
    /\ requests[q].pos >= 1 /\ ~requests[q].ended
    /\ requests[q].targets = {s}

\* AdbClient.exec on behalf of request p: its next command goes to the serial
\* selected now; the command's outcome decides whether the request goes on.
Issue(p) ==
    \E stop \in BOOLEAN :
        LET r == requests[p] IN
        /\ r.tool # "none" /\ ~r.ended
        /\ r.pos < Len(Commands(r.tool))
        /\ stop => (r.pos + 1) \in EarlyExit(r.tool)
        /\ requests' = [requests EXCEPT ![p] =
              [r EXCEPT !.pos = r.pos + 1,
                        !.targets = r.targets \cup {selectedDevice},
                        !.ended = stop \/ r.pos + 1 = Len(Commands(r.tool)),
                        !.within =
                            IF r.pos = 0 /\ r.tool \in Mutating
                            THEN { q \in Procs \ {p} : OpenOn(q, selectedDevice) }
                            ELSE r.within,
                        !.interleaved =
                            \/ r.interleaved
                            \/ /\ OpenOn(p, selectedDevice)
                               /\ \E q \in Procs \ {p} :
                                     /\ requests[q].tool \in Mutating
                                     /\ requests[q].targets = {selectedDevice}
                                     /\ p \in requests[q].within]]
        /\ UNCHANGED <<selectedDevice, legitSel, concurrentFrame>>

\* The handler returns its response.
Return(p) ==
    /\ requests[p].ended
    /\ requests' = [requests EXCEPT ![p] = NoRequest]
    /\ UNCHANGED <<selectedDevice, legitSel, concurrentFrame>>

NextConcurrent ==
    \E p \in Procs : ToolStart(p) \/ DeviceSelectStart(p) \/ Issue(p) \/ Return(p)

\* ------------------------------------------------------------------------
\* Command executor (AdbClient.exec, src/src/index.ts)
\* ------------------------------------------------------------------------

\* Text is a sequence of characters: " " stands for white space, "x" for any
\* other character.
Chars == {" ", "x"}
Texts == UNION { [1..n -> Chars] : n \in 0..MaxText }

\* String.prototype.trim.
RECURSIVE TrimLeft(_)
TrimLeft(t) ==
    IF t = << >> THEN t
    ELSE IF Head(t) = " " THEN TrimLeft(Tail(t)) ELSE t
RECURSIVE TrimRight(_)
TrimRight(t) ==
    IF t = << >> THEN t
    ELSE IF t[Len(t)] = " " THEN TrimRight(SubSeq(t, 1, Len(t) - 1)) ELSE t
Trim(t) == TrimRight(TrimLeft(t))

\* The messages, each one text of its own.
CommandFailed  == <<"Command failed: <command line>">>  \* child_process.exec
SpawnFailed    == <<"spawn /bin/sh <errno name>">>      \* child_process.spawn
UnknownError   == <<"Unknown error">>
AdbUnavailable ==
    <<"ADB is not available. Please install Android SDK Platform Tools.">>

NoCode == 0                \* err.code is null or undefined
\* Exit codes of a command that ran: 0, a failure, and the shell's "command
\* not found".
ExitCodes == {0, 1, 127}
\* A failed spawn has no exit code: err.code is the name of an errno, which
\* stands here as the (negative) errno itself: ENOENT, EAGAIN.
SpawnCodes == {-2, -11}

\* What execAsync(command, {timeout}) can end with.
\*   exit     the bridge ran the command, which exited with `code`;
\*   timeout  the timeout elapsed and the child was killed: the promise is
\*            rejected with killed = true, signal = SIGTERM, code = null and
\*            the same "Command failed" message, with the output so far;
\*   missing  the shell did not find the bridge binary: it printed its
\*            complaint to stderr and exited with 127;
\*   spawn    the shell itself could not be spawned.
Outcomes ==
    [kind : {"exit"}, code : ExitCodes, stdout : Texts, stderr : Texts,
     message : {CommandFailed}]
    \cup [kind : {"timeout"}, code : {NoCode}, stdout : Texts, stderr : Texts,
          message : {CommandFailed}]
    \cup [kind : {"missing"}, code : {127}, stdout : {<< >>},
          stderr : { t \in Texts : Trim(t) # << >> }, message : {CommandFailed}]
    \cup [kind : {"spawn"}, code : SpawnCodes, stdout : {<< >>},
          stderr : {<< >>}, message : {SpawnFailed}]

\* The promise resolves iff the command exited with 0.
Resolves(o) == o.kind = "exit" /\ o.code = 0

\* `err.stderr?.trim() || err.message || 'Unknown error'`
StderrOfNoFallback(o) == Trim(o.stderr)
StderrOf(o) ==
    IF Trim(o.stderr) # << >> THEN Trim(o.stderr)
    ELSE IF o.message # << >> THEN o.message
    ELSE UnknownError

\* `err.code || 1`
ExitCodeOf(o) == IF o.code # NoCode THEN o.code ELSE 1

NoResult == [raised |-> FALSE, success |-> FALSE, stdout |-> << >>,
             stderr |-> << >>, exitCode |-> 0]

\* AdbClient.exec: the AdbResult for an outcome of the spawned command.
ExecResult(o) ==
    IF Resolves(o)
    THEN [NoResult EXCEPT !.success = TRUE, !.stdout = Trim(o.stdout),
                          !.stderr = Trim(o.stderr), !.exitCode = 0]
    ELSE [NoResult EXCEPT !.success = FALSE, !.stdout = Trim(o.stdout),
                          !.stderr = StderrOf(o), !.exitCode = ExitCodeOf(o)]

\* AdbClient.checkAdb: `adb version` succeeded.
CheckAdb(o) == ExecResult(o).success

NoCall == [via |-> "none", outcome |-> [kind |-> "none"]]

ExecIdle == call = NoCall /\ result = NoResult

execFrame == <<regVars, entVars, hosts, requests, dnsVars, probeVars, opVars>>

\* exec keeps nothing between calls (the selection aside, which does not
\* enter the result): a behaviour is one call.

\* exec(args, timeout).
Exec ==
    \E o \in Outcomes :
        /\ call = NoCall
        /\ call' = [via |-> "exec", outcome |-> o]
        /\ result' = ExecResult(o)
        /\ UNCHANGED execFrame

\* shell(command, timeout): exec(['shell', command], timeout).
Shell ==
    \E o \in Outcomes :
        /\ call = NoCall
        /\ call' = [via |-> "shell", outcome |-> o]
        /\ result' = ExecResult(o)
        /\ UNCHANGED execFrame

\* DeviceManager.initialize: throws when checkAdb answers false.
Initialize ==
    \E o \in Outcomes :
        /\ call = NoCall
        /\ call' = [via |-> "initialize", outcome |-> o]
        /\ result' = IF CheckAdb(o)
                     THEN [NoResult EXCEPT !.success = TRUE]
                     ELSE [NoResult EXCEPT !.raised = TRUE, !.stderr = AdbUnavailable]
        /\ UNCHANGED execFrame

NextExec == Exec \/ Shell \/ Initialize

\* ------------------------------------------------------------------------
\* NetworkCheck.dnsLookup (src/src/types.ts)
\* ------------------------------------------------------------------------

\* An address text is a sequence of tokens: "n" a run of decimal digits, "h"
\* a run of the letters a-f, "." and ":" themselves, "#" any other character.
IPv4Text      == <<"n", ".", "n", ".", "n", ".", "n">>         \* 142.250.72.14
IPv4PortText  == IPv4Text \o <<"#", "n">>                      \* 8.8.8.8#53
IPv6DigitText == <<"n", ":", "h", "n", ":", ":", "n", "h">>    \* 2607:f8b0::200e
IPv6MixedText == <<"n", "h", "n", ":", ":", "n">>              \* 2a00::1
IPv6HexText   == <<"h", "n", ":", ":", "n">>                   \* fe80::1
AddressTexts ==
    {IPv4Text, IPv4PortText, IPv6DigitText, IPv6MixedText, IPv6HexText, << >>}

\* A line of nslookup output: does it contain "Name:", does it contain
\* "Address:" (or "Address 1:"), and the text that follows the latter.
Lines ==
    [name : BOOLEAN, address : {TRUE}, text : AddressTexts]
    \cup [name : BOOLEAN, address : {FALSE}, text : {<< >>}]
Answers == UNION { [1..n -> Lines] : n \in 0..MaxLines }

\* The longest prefix of t made of tokens of class: what `[class]+` matches
\* at the start of t (nothing, when the prefix is empty).
RECURSIVE Prefix(_, _)
Prefix(t, class) ==
    IF t = << >> \/ Head(t) \notin class THEN << >>
    ELSE <<Head(t)>> \o Prefix(Tail(t), class)

\* Group 1 of /Address(?:\s+\d)?:\s*([0-9.]+|[0-9a-f:]+)/i on a line that
\* contains "Address:": the first alternative that matches wins; << >> when
\* neither does.
AddrMatch(text) ==
    IF Prefix(text, {"n", "."}) # << >> THEN Prefix(text, {"n", "."})
    ELSE Prefix(text, {"n", "h", ":"})

\* addrMatch[1].includes(':')
Includes(t, c) == \E i \in 1..Len(t) : t[i] = c

\* The loop over the lines of the nslookup output.
RECURSIVE ParseNslookup(_, _, _, _)
ParseNslookup(lines, i, inAnswer, acc) ==
    IF i > Len(lines) THEN acc
    ELSE LET l   == lines[i]
             ans == inAnswer \/ l.name
             m   == IF l.address THEN AddrMatch(l.text) ELSE << >>
         IN  ParseNslookup(lines, i + 1, ans,
                 IF ans /\ m # << >> /\ ~Includes(m, ":")
                 THEN Append(acc, m) ELSE acc)

\* /^([0-9.]+)/ on the output of getent, /\(([0-9.]+)\)/ on that of ping
\* (the text between the first parentheses).
GetentMatch(text) == Prefix(text, {"n", "."})
PingMatch(text) == IF Prefix(text, {"n", "."}) = text THEN text ELSE << >>

\* `dnsResult.addresses.length === 0`: the next tier is tried.
NeedsNextTierAlways(addrs) == TRUE
NeedsNextTier(addrs) == Len(addrs) = 0

DnsIdle ==
    /\ dnsPc = "idle" /\ answer = << >> /\ tiers = << >> /\ yields = << >>
    /\ addresses = << >> /\ dnsError = FALSE

dnsFrame == <<regVars, entVars, hosts, requests, execVars, probeVars, opVars>>

\* dnsLookup is called.
DnsLookup ==
    /\ dnsPc = "idle"
    /\ dnsPc' = "nslookup"
    /\ UNCHANGED <<dnsFrame, answer, tiers, yields, addresses, dnsError>>

\* Tier 1: nslookup, and the parse of its output.
Nslookup ==
    \E failed \in BOOLEAN, out \in Answers : LET ok == ~failed IN
        /\ dnsPc = "nslookup"
        /\ tiers' = Append(tiers, "nslookup")
        /\ answer' = IF ok THEN out ELSE << >>
        /\ addresses' = IF ok THEN ParseNslookup(out, 1, FALSE, addresses)
                        ELSE addresses
        /\ yields' = Append(yields, Len(addresses') > Len(addresses))
        /\ dnsPc' = IF NeedsNextTier(addresses') THEN "getent" ELSE "return"
        /\ UNCHANGED <<dnsFrame, dnsError>>

\* Tier 2: getent hosts.
Getent ==
    \E failed \in BOOLEAN, text \in AddressTexts : LET ok == ~failed IN
        /\ dnsPc = "getent"
        /\ tiers' = Append(tiers, "getent")
        /\ addresses' = IF ok /\ GetentMatch(text) # << >>
                        THEN Append(addresses, GetentMatch(text)) ELSE addresses
        /\ yields' = Append(yields, Len(addresses') > Len(addresses))
        /\ dnsPc' = IF NeedsNextTier(addresses') THEN "ping" ELSE "return"
        /\ UNCHANGED <<dnsFrame, answer, dnsError>>

\* Tier 3: ping -c 1.
Ping ==
    \E failed \in BOOLEAN, text \in AddressTexts : LET ok == ~failed IN
        /\ dnsPc = "ping"
        /\ tiers' = Append(tiers, "ping")
        /\ addresses' = IF ok /\ PingMatch(text) # << >>
                        THEN Append(addresses, PingMatch(text)) ELSE addresses
        /\ yields' = Append(yields, Len(addresses') > Len(addresses))
        /\ dnsPc' = "return"
        /\ UNCHANGED <<dnsFrame, answer, dnsError>>

\* The error field is set when no tier gave an address; the result is returned.
DnsReturn ==
    /\ dnsPc = "return"
    /\ dnsError' = (Len(addresses) = 0)
    /\ dnsPc' = "done"
    /\ UNCHANGED <<dnsFrame, answer, tiers, yields, addresses>>

NextDns == DnsLookup \/ Nslookup \/ Getent \/ Ping \/ DnsReturn

\* ------------------------------------------------------------------------
\* NetworkCheck.checkInternet and checkCaptivePortal (src/src/types.ts)
\* ------------------------------------------------------------------------

\* One step per executor command.  A status code is the number parseInt makes
\* of the text curl printed; NaN stands for a text that starts with no digit
\* (every comparison with it is false, as with this number).  The latency
\* the result carries is a clock difference and is left out.
NaN == -1

\* testUrls, in the order of the array.
TestUrls ==
    << [url |-> "https://www.google.com/generate_204", expected |-> 204],
       [url |-> "https://connectivitycheck.gstatic.com/generate_204",
        expected |-> 204],
       [url |-> "https://www.cloudflare.com/cdn-cgi/trace", expected |-> 200] >>

PingEndpoint == "8.8.8.8 (ping)"
NoEndpointsReached == "Failed to reach any internet endpoints"
None == "none"         \* an optional field that is not set

HttpCodes == {NaN, 0, 199, 200, 204, 301, 399, 400, 404}

\* httpCode === test.expected || (httpCode >= 200 && httpCode < 400)
ReachedOnlyExpected(code, expected) == code = expected
Reached(code, expected) == code = expected \/ (code >= 200 /\ code < 400)

\* NetworkCheck.ping: alive = the command succeeded and its output does not
\* say '100% packet loss'.
Alive(ok, allLost) == ok /\ ~allLost

NotReturned == [hasInternet |-> FALSE, endpoint |-> None, error |-> None]

NetIdle ==
    /\ netPc = "idle" /\ probed = << >> /\ pinged = << >>
    /\ connectivity = NotReturned

netFrame ==
    <<regVars, entVars, hosts, requests, execVars, dnsVars,
      capVars, infoVars, scanVars, statusVars, opVars>>

\* checkInternet is called.
CheckInternet ==
    /\ netPc = "idle"
    /\ netPc' = "probe"
    /\ UNCHANGED <<netFrame, probed, pinged, connectivity>>

\* One iteration of the loop over testUrls: the curl command and the test of
\* its outcome.
Probe ==
    \E failed \in BOOLEAN, code \in HttpCodes : LET ok == ~failed IN
        /\ netPc = "probe"
        /\ LET i    == Len(probed) + 1
               test == TestUrls[i]
           IN  /\ probed' = Append(probed, [url |-> test.url, ok |-> ok,
                                            code |-> code])
               /\ IF ok /\ Reached(code, test.expected)
                  THEN /\ connectivity' = [hasInternet |-> TRUE,
                                           endpoint |-> test.url, error |-> None]
                       /\ netPc' = "done"
                  ELSE /\ netPc' = IF i < Len(TestUrls) THEN "probe" ELSE "ping"
                       /\ UNCHANGED connectivity
        /\ UNCHANGED <<netFrame, pinged>>

\* The fallback: ping('8.8.8.8', 1), and the return that follows it.
FallbackPing ==
    \E failed \in BOOLEAN, allLost \in BOOLEAN : LET ok == ~failed IN
        /\ netPc = "ping"
        /\ pinged' = Append(pinged, [ok |-> ok, allLost |-> allLost])
        /\ connectivity' =
              IF Alive(ok, allLost)
              THEN [hasInternet |-> TRUE, endpoint |-> PingEndpoint,
                    error |-> None]
              ELSE [hasInternet |-> FALSE, endpoint |-> None,
                    error |-> NoEndpointsReached]
        /\ netPc' = "done"
        /\ UNCHANGED <<netFrame, probed>>

NextInternet == CheckInternet \/ Probe \/ FallbackPing

\* ---- checkCaptivePortal ----

captiveCheckUrl == "http://connectivitycheck.gstatic.com/generate_204"
CaptiveCheckFailed == "Failed to check captive portal"

\* What curl prints for -w "%{http_code}\n%{redirect_url}": the status code
\* and the redirect target, None when there is no redirect.
CaptiveCodes == {NaN, 0, 199, 200, 204, 301, 302, 307, 400, 404, 500}
Targets == {None, "http://portal.example/login", "http://10.0.0.1/"}

\* result.stdout.trim().split('\n'): an empty redirect target leaves one line.
ProbeLines(code, target) ==
    IF target = None THEN <<code>> ELSE <<code, target>>

\* lines[1] || ''
RedirectUrl(lines) == IF Len(lines) >= 2 THEN lines[2] ELSE None

\* contentResult.success && contentResult.stdout.length > 0
HasContentIgnoringFailure(r) == Len(r.stdout) > 0
HasContent(r) == r.ok /\ Len(r.stdout) > 0

NoProbe == [ok |-> FALSE, code |-> NaN, target |-> None]
NoFetch == [ok |-> FALSE, content |-> << >>, stdout |-> << >>]
NoPortal == [isCaptive |-> FALSE, portalUrl |-> None, error |-> None]

CapIdle ==
    /\ capPc = "idle" /\ capCmds = << >> /\ capProbe = NoProbe
    /\ capFetch = NoFetch /\ portal = NoPortal

capFrame ==
    <<regVars, entVars, hosts, requests, execVars, dnsVars,
      netVars, infoVars, scanVars, statusVars, opVars>>

\* checkCaptivePortal is called.
CheckCaptivePortal ==
    /\ capPc = "idle"
    /\ capPc' = "probe"
    /\ UNCHANGED <<capFrame, capCmds, capProbe, capFetch, portal>>

\* The probe command and the decisions taken on its outcome alone.
CaptiveProbe ==
    \E failed \in BOOLEAN, code \in CaptiveCodes, target \in Targets :
        LET ok          == ~failed
            lines       == ProbeLines(code, target)
            httpCode    == lines[1]
            redirectUrl == RedirectUrl(lines)
        IN  /\ capPc = "probe"
            /\ capCmds' = Append(capCmds, "probe")
            /\ capProbe' = [ok |-> ok, code |-> code, target |-> target]
            /\ IF ~ok
               THEN /\ portal' = [NoPortal EXCEPT !.error = CaptiveCheckFailed]
                    /\ capPc' = "done"
               ELSE IF httpCode = 204
               THEN /\ portal' = NoPortal
                    /\ capPc' = "done"
               ELSE IF httpCode \in {301, 302} /\ redirectUrl # None
               THEN /\ portal' = [NoPortal EXCEPT !.isCaptive = TRUE,
                                                  !.portalUrl = redirectUrl]
                    /\ capPc' = "done"
               ELSE IF httpCode = 200
               THEN /\ capPc' = "fetch"
                    /\ UNCHANGED portal
               ELSE /\ portal' = NoPortal
                    /\ capPc' = "done"
            /\ UNCHANGED <<capFrame, capFetch>>

\* The content fetch after a 200 (curl ... | head -c 200); the executor
\* returns the output trimmed, on success and on failure.
CaptiveFetch ==
    \E failed \in BOOLEAN, content \in Texts :
        LET r == [ok |-> ~failed, content |-> content, stdout |-> Trim(content)]
        IN  /\ capPc = "fetch"
            /\ capCmds' = Append(capCmds, "fetch")
            /\ capFetch' = r
            /\ portal' = IF HasContent(r)
                         THEN [NoPortal EXCEPT !.isCaptive = TRUE,
                                               !.portalUrl = captiveCheckUrl]
                         ELSE NoPortal
            /\ capPc' = "done"
            /\ UNCHANGED <<capFrame, capProbe>>

NextCaptive == CheckCaptivePortal \/ CaptiveProbe \/ CaptiveFetch

\* ------------------------------------------------------------------------
\* AdbClient.getDeviceInfo (src/src/index.ts)
\* ------------------------------------------------------------------------
\* One step per property read.  What a read printed is a text, trimmed by the
\* executor: empty when the property is not set on the device.
InfoFields ==
    <<"model", "brand", "manufacturer", "androidVersion", "sdkVersion",
      "buildId">>
SdkField == 5
Unknown == "Unknown"

PropTexts(i) == IF i = SdkField THEN {"", "30"} ELSE {"", "value"}

\* parseInt(text, 10) on the texts at hand.
NumberTexts ==
    ("30" :> 30) @@ ("0" :> 0) @@ ("2412" :> 2412) @@ ("5180" :> 5180)
    @@ ("24" :> 24) @@ ("-51" :> -51) @@ ("58" :> 58) @@ ("-1000" :> -1000)
    @@ ("433" :> 433) @@ ("5" :> 5)
ParseInt(t) == IF t \in DOMAIN NumberTexts THEN NumberTexts[t] ELSE NaN

\* results[prop] = result.success ? result.stdout : ''
ReadResultIgnoringFailure(r) == r.stdout
ReadResult(r) == IF r.ok THEN r.stdout ELSE ""

\* text || fallback
OrElse(text, fallback) == IF text = "" THEN fallback ELSE text

\* The record built from the six results.
DeviceInfoOf(serial, results) ==
    [serial         |-> serial,
     model          |-> OrElse(results[1], Unknown),
     brand          |-> OrElse(results[2], Unknown),
     manufacturer   |-> OrElse(results[3], Unknown),
     androidVersion |-> OrElse(results[4], Unknown),
     sdkVersion     |-> ParseInt(OrElse(results[5], "0")),
     buildId        |-> OrElse(results[6], Unknown)]

InfoIdle == infoPc = "idle" /\ reads = << >> /\ info = << >>

\* A device is selected when getDeviceInfo is called.
InfoInit ==
    /\ InfoIdle
    /\ attached = [s \in Serials |-> "device"]
    /\ selectedDevice \in Serials
    /\ devices = << >>
    /\ legitSel = {selectedDevice}
    /\ last = NoOp

infoFrame ==
    <<regVars, entVars, hosts, requests, execVars, dnsVars,
      netVars, capVars, scanVars, statusVars, opVars>>

\* getDeviceInfo is called with a device selected.
GetDeviceInfoStart ==
    /\ infoPc = "idle" /\ selectedDevice # Null
    /\ infoPc' = "read"
    /\ UNCHANGED <<infoFrame, reads, info>>

\* One iteration of the loop over props: getprop, awaited.
ReadProp ==
    \E failed \in BOOLEAN, text \in PropTexts(Len(reads) + 1) :
        /\ infoPc = "read"
        /\ reads' = Append(reads, [ok |-> ~failed, stdout |-> text])
        /\ infoPc' = IF Len(reads') < Len(GetProps) THEN "read" ELSE "return"
        /\ UNCHANGED <<infoFrame, info>>

\* The return statement.
InfoReturn ==
    /\ infoPc = "return"
    /\ info' = DeviceInfoOf(selectedDevice,
                            [i \in 1..Len(reads) |-> ReadResult(reads[i])])
    /\ infoPc' = "done"
    /\ UNCHANGED <<infoFrame, reads>>

NextDeviceInfo == GetDeviceInfoStart \/ ReadProp \/ InfoReturn

\* ------------------------------------------------------------------------
\* WifiCommands.getScanResults (src/src/adb/wifi-commands.ts)
\* ------------------------------------------------------------------------
\* The output is a sequence of lines and a line a sequence of items: a run of
\* white space, a bracketed group, or a run of other characters (a word).
\* Adjacent words and groups are one run of text without white space.
Spaces == {" ", "  "}
IsSpace(x) == x \in Spaces

\* Bracketed groups, each with the security markers its text contains as
\* substrings (WPA is a substring of WPA2 and of WPA3).
MarkersIn ==
    [ f \in {"[ESS]", "[free]", "[RSN-PSK-CCMP]"} |-> {} ]
    @@ ("[WPA2-PSK-CCMP]" :> {"WPA2", "WPA"})
    @@ ("[WPA3-EAP-CCMP]" :> {"WPA3", "WPA"})
    @@ ("[RSN-SAE-CCMP]"  :> {"SAE"})
    @@ ("[WPA-PSK-TKIP]"  :> {"WPA"})
    @@ ("[WEP]"           :> {"WEP"})
    @@ ("[RSN-OWE-CCMP]"  :> {"OWE"})
Brackets == DOMAIN MarkersIn
IsBracket(x) == x \in Brackets

\* Texts that match /^([0-9a-f]{2}:){5}[0-9a-f]{2}$/i, and MAC-like texts
\* that do not: five groups, a digit that is not hexadecimal.
MacTexts    == {"84:18:3a:06:be:58", "AC:DE:48:00:11:22"}
NotMacTexts == {"84:18:3a:06:be", "84:18:3a:06:be:5g"}

\* Texts that match /^\d{4,5}$/ and /^-?\d{1,3}$/.
FrequencyTexts == {"2412", "5180"}
RssiTexts      == {"-51", "58"}

HeaderWord == "BSSID"
Hidden == <<"<hidden>">>

\* line.trim()
RECURSIVE DropLeading(_)
DropLeading(t) ==
    IF t = << >> \/ ~IsSpace(Head(t)) THEN t ELSE DropLeading(Tail(t))
RECURSIVE DropTrailing(_)
DropTrailing(t) ==
    IF t = << >> \/ ~IsSpace(t[Len(t)]) THEN t
    ELSE DropTrailing(SubSeq(t, 1, Len(t) - 1))
TrimLine(t) == DropTrailing(DropLeading(t))

\* line.indexOf('['), counted in items from 1; 0 when there is none.
RECURSIVE IndexOfBracket(_, _)
IndexOfBracket(t, i) ==
    IF i > Len(t) THEN 0
    ELSE IF IsBracket(t[i]) THEN i ELSE IndexOfBracket(t, i + 1)

MainPart(line) ==
    LET b == IndexOfBracket(line, 1)
    IN  IF b = 0 THEN line ELSE SubSeq(line, 1, b - 1)
FlagsPart(line) ==
    LET b == IndexOfBracket(line, 1)
    IN  IF b = 0 THEN << >> ELSE SubSeq(line, b, Len(line))

\* text.split(/\s+/) of a trimmed text: the runs between the white space,
\* each the sequence of its items.  (Of the empty text the engine makes one
\* empty part; here it makes none: either way fewer than three.)
RECURSIVE Split(_, _, _)
Split(t, cur, acc) ==
    IF t = << >> THEN (IF cur = << >> THEN acc ELSE Append(acc, cur))
    ELSE IF IsSpace(Head(t))
         THEN Split(Tail(t), << >>, IF cur = << >> THEN acc ELSE Append(acc, cur))
         ELSE Split(Tail(t), Append(cur, Head(t)), acc)

\* pattern.test(part): the part is one word, and the word matches.
IsBssidAnyMacLike(part) == Len(part) = 1 /\ part[1] \in MacTexts \cup NotMacTexts
IsBssid(part) == Len(part) = 1 /\ part[1] \in MacTexts
IsFrequency(part) == Len(part) = 1 /\ part[1] \in FrequencyTexts
IsRssi(part) == Len(part) = 1 /\ part[1] \in RssiTexts

\* parts.slice(4).join(' ')
RECURSIVE JoinFrom(_, _)
JoinFrom(parts, i) ==
    IF i > Len(parts) THEN << >>
    ELSE IF i = Len(parts) THEN parts[i]
    ELSE parts[i] \o <<" ">> \o JoinFrom(parts, i + 1)

\* flagsPart.includes(marker)
FlagsInclude(flags, marker) ==
    \E i \in 1..Len(flags) : IsBracket(flags[i]) /\ marker \in MarkersIn[flags[i]]

\* The chain of tests that makes the security label.
SecurityOfWpa2First(flags) ==
    IF flags = << >> THEN "Open"
    ELSE IF FlagsInclude(flags, "WPA2") THEN "WPA2"
    ELSE IF FlagsInclude(flags, "SAE") THEN "SAE"
    ELSE IF FlagsInclude(flags, "WPA3") THEN "WPA3"
    ELSE IF FlagsInclude(flags, "WPA") THEN "WPA"
    ELSE IF FlagsInclude(flags, "WEP") THEN "WEP"
    ELSE IF FlagsInclude(flags, "OWE") THEN "OWE"
    ELSE "Open"
SecurityOf(flags) ==
    IF flags = << >> THEN "Open"
    ELSE IF FlagsInclude(flags, "SAE") THEN "SAE"
    ELSE IF FlagsInclude(flags, "WPA3") THEN "WPA3"
    ELSE IF FlagsInclude(flags, "WPA2") THEN "WPA2"
    ELSE IF FlagsInclude(flags, "WPA") THEN "WPA"
    ELSE IF FlagsInclude(flags, "WEP") THEN "WEP"
    ELSE IF FlagsInclude(flags, "OWE") THEN "OWE"
    ELSE "Open"

\* ssid || '<hidden>'
SsidOrHiddenNever(ssid) == ssid
SsidOrHidden(ssid) == IF ssid = << >> THEN Hidden ELSE ssid

\* The body of the loop for line i: the records it pushes, none or one.  The
\* field `line` is history: the index of the line the record was made from.
ParseScanLine(lines, i) ==
    LET line  == TrimLine(lines[i])
        parts == Split(TrimLine(MainPart(line)), << >>, << >>)
    IN  IF line = << >> THEN << >>
        ELSE IF Len(parts) < 3 THEN << >>
        ELSE IF ~IsBssid(parts[1]) THEN << >>
        ELSE << [ssid      |-> SsidOrHidden(TrimLine(JoinFrom(parts, 5))),
                 bssid     |-> parts[1][1],
                 frequency |-> IF IsFrequency(parts[2])
                               THEN ParseInt(parts[2][1]) ELSE 0,
                 rssi      |-> IF IsRssi(parts[3])
                               THEN ParseInt(parts[3][1]) ELSE 0,
                 security  |-> SecurityOf(FlagsPart(line)),
                 line      |-> i] >>

\* lines[0]?.includes('BSSID') ? 1 : 0, counted from 1.
StartIndex(lines) ==
    IF Len(lines) >= 1 /\ \E j \in 1..Len(lines[1]) : lines[1][j] = HeaderWord
    THEN 2 ELSE 1

RECURSIVE ParseScanLoop(_, _)
ParseScanLoop(lines, i) ==
    IF i > Len(lines) THEN << >>
    ELSE ParseScanLine(lines, i) \o ParseScanLoop(lines, i + 1)

ParseScanResults(lines) == ParseScanLoop(lines, StartIndex(lines))

\* Lines to parse.  A line in full detail: optional leading white space, a
\* first word, the words after it, one kind of white space between the
\* words, and a bracketed suffix.
FirstWords == MacTexts \cup NotMacTexts
RestWords ==
    { << >>, <<"2412">>, <<"2412", "-51">>, <<"2412", "-51", "17.210">>,
      <<"2412", "-51", "17.210", "HomeNet">>,
      <<"5180", "58", "0.5", "Home", "Net">>,
      <<"24", "-51", "17.210", "HomeNet">>,
      <<"2412", "-1000", "17.210", "HomeNet">> }
Suffixes ==
    {<< >>} \cup { <<f>> : f \in Brackets }
            \cup { <<f, g>> : f \in Brackets, g \in Brackets }

RECURSIVE Spaced(_, _)
Spaced(words, sp) ==
    IF words = << >> THEN << >>
    ELSE IF Len(words) = 1 THEN words
    ELSE <<Head(words), sp>> \o Spaced(Tail(words), sp)

DetailLines ==
    { (IF lead THEN <<sp>> ELSE << >>) \o Spaced(<<first>> \o rest, sp)
        \o (IF gap THEN <<sp>> ELSE << >>) \o suffix :
        lead \in BOOLEAN, gap \in BOOLEAN, sp \in Spaces, first \in FirstWords,
        rest \in RestWords, suffix \in Suffixes }

\* Lines of which an output of several lines is made: the header, a blank
\* line, records of two networks, a line with a malformed MAC, a short line,
\* and a record whose network is named like the header.
CoreLines ==
    { <<"BSSID", " ", "Frequency", " ", "RSSI", " ", "Age(sec)", " ", "SSID",
        " ", "Flags">>,
      << >>,
      <<"84:18:3a:06:be:58", " ", "2412", " ", "-51", " ", "17.210", " ",
        "HomeNet", " ", "[WPA2-PSK-CCMP]", "[ESS]">>,
      <<"AC:DE:48:00:11:22", " ", "5180", " ", "58", " ", "0.5", " ",
        "[RSN-SAE-CCMP]">>,
      <<"84:18:3a:06:be", " ", "2412", " ", "-51", " ", "17.210", " ",
        "HomeNet">>,
      <<"84:18:3a:06:be:58", " ", "2412">>,
      <<"AC:DE:48:00:11:22", " ", "2412", " ", "-51", " ", "17.210", " ",
        "BSSID">> }

ScanOutputs ==
    { <<l>> : l \in DetailLines }
    \cup UNION { [1..n -> CoreLines] : n \in 1..MaxLines }

ScanIdle == scanPc = "idle" /\ scanOut = << >> /\ scanRecords = << >>

scanFrame ==
    <<regVars, entVars, hosts, requests, execVars, dnsVars,
      netVars, capVars, infoVars, statusVars, opVars>>

\* getScanResults: the command, and the parse of its output when it
\* succeeded; the call throws when it failed.
GetScanResults ==
    /\ scanPc = "idle"
    /\ \E failed \in BOOLEAN, out \in ScanOutputs :
          IF failed
          THEN /\ scanPc' = "threw"
               /\ UNCHANGED <<scanOut, scanRecords>>
          ELSE /\ scanPc' = "done"
               /\ scanOut' = out
               /\ scanRecords' = ParseScanResults(out)
    /\ UNCHANGED scanFrame

NextScan == GetScanResults

\* ------------------------------------------------------------------------
\* WifiCommands.getStatus (src/src/adb/wifi-commands.ts)
\* ------------------------------------------------------------------------
\* One step per command.  A command's stdout is a sequence of items: a key
\* with its colon, a run of white space, a double quote, a comma, a line
\* break, a value, or a line that carries a connection state.  getStatus
\* does not look at the success of either command: what a failed command
\* printed is parsed all the same.
Quote    == "\""
Comma    == ","
LineFeed == "\n"

SsidKey  == "SSID:"
BssidKey == "BSSID:"
IpKey    == "IP address:"
SpeedKey == "Link speed:"
RssiKey  == "RSSI:"
FreqKey  == "Frequency:"
Keys == <<SsidKey, BssidKey, IpKey, SpeedKey, RssiKey, FreqKey>>

AbsenceMarker == "<none>"
NetworkName   == "HomeNet"

\* Items in which the two connection markers occur as substrings.
HasCompleted == {"Supplicant state: COMPLETED"}
HasConnected == {"CONNECTED/CONNECTED", "DISCONNECTED/DISCONNECTED"}

\* dumpsys.includes('state: COMPLETED') || dumpsys.includes('CONNECTED')
IsConnected(text) ==
    \/ \E i \in 1..Len(text) : text[i] \in HasCompleted
    \/ \E i \in 1..Len(text) : text[i] \in HasConnected

\* statusResult.stdout.toLowerCase().includes('wifi is enabled')
IsEnabled(text) == \E i \in 1..Len(text) : text[i] = "Wifi is enabled"

\* The longest prefix matched by [^"',\n]+ .
RECURSIVE GroupRun(_)
GroupRun(t) ==
    IF t = << >> \/ Head(t) \in {Quote, Comma, LineFeed} THEN << >>
    ELSE <<Head(t)>> \o GroupRun(Tail(t))

\* /SSID:\s*["']?([^"',\n]+)["']?/i with 'SSID:' matched at the end of item
\* i: group 1, << >> when the pattern does not match there.  The white space
\* and the quote are taken when the group can start after them; otherwise
\* the engine gives the white space back and the group starts with it.
SsidGroupAt(text, i) ==
    LET rest    == SubSeq(text, i + 1, Len(text))
        sp      == rest # << >> /\ IsSpace(Head(rest))
        afterSp == IF sp THEN Tail(rest) ELSE rest
        q       == afterSp # << >> /\ Head(afterSp) = Quote
        afterQ  == IF q THEN Tail(afterSp) ELSE afterSp
    IN  IF GroupRun(afterQ) # << >> THEN GroupRun(afterQ)
        ELSE IF sp THEN GroupRun(rest)
        ELSE << >>

\* 'SSID:' occurs, whatever the case of the letters, in these keys.
HasSsidKey(item) == item \in {SsidKey, BssidKey}

\* dumpsys.match(...) for the ssid: the leftmost match.
RECURSIVE SsidMatch(_, _)
SsidMatch(text, i) ==
    IF i > Len(text) THEN << >>
    ELSE IF HasSsidKey(text[i]) /\ SsidGroupAt(text, i) # << >>
         THEN SsidGroupAt(text, i)
         ELSE SsidMatch(text, i + 1)

\* dumpsys.match(/<key>\s*(<class>)/i): the value after the leftmost key that
\* is followed, white space apart, by a text of the class; << >> when none.
RECURSIVE ValueMatch(_, _, _, _)
ValueMatch(text, i, key, class) ==
    IF i > Len(text) THEN << >>
    ELSE LET rest  == SubSeq(text, i + 1, Len(text))
             after == IF rest # << >> /\ IsSpace(Head(rest)) THEN Tail(rest)
                      ELSE rest
         IN  IF text[i] = key /\ after # << >> /\ Head(after) \in class
             THEN <<Head(after)>>
             ELSE ValueMatch(text, i + 1, key, class)

\* The texts the value patterns match: [0-9a-f:]{17}, [0-9.]+, \d+, -?\d+.
MacValue == "84:18:3a:06:be:58"
IpValue  == "192.168.1.5"
HexColon17 == {MacValue}
Dotted     == {IpValue, "433", "5180"}
Digits     == {"433", "5180"}
Signed     == {"-51", "433", "5180"}

NoValue == [set |-> FALSE, v |-> << >>]
Value(x) == [set |-> TRUE, v |-> x]
Optional(m) == IF m = << >> THEN NoValue ELSE Value(m[1])
OptionalInt(m) == IF m = << >> THEN NoValue ELSE Value(ParseInt(m[1]))

\* if (ssidMatch && ssidMatch[1] !== '<none>') status.ssid = ssidMatch[1].trim()
SsidOf(text) ==
    LET m == SsidMatch(text, 1)
    IN  IF m # << >> /\ m # <<AbsenceMarker>> THEN Value(TrimLine(m))
        ELSE NoValue

\* The WifiStatus built from the two outputs.
StatusOf(out, text) ==
    [enabled   |-> IsEnabled(out),
     connected |-> IsConnected(text),
     ssid      |-> SsidOf(text),
     bssid     |-> Optional(ValueMatch(text, 1, BssidKey, HexColon17)),
     ipAddress |-> Optional(ValueMatch(text, 1, IpKey, Dotted)),
     linkSpeed |-> OptionalInt(ValueMatch(text, 1, SpeedKey, Digits)),
     rssi      |-> OptionalInt(ValueMatch(text, 1, RssiKey, Signed)),
     frequency |-> OptionalInt(ValueMatch(text, 1, FreqKey, Digits))]

\* Dumps.  A field is a key, white space and the value; the ssid is printed
\* between quotes.
StandardValue ==
    (SsidKey :> <<Quote, NetworkName, Quote>>) @@ (BssidKey :> <<MacValue>>)
    @@ (IpKey :> <<IpValue>>) @@ (SpeedKey :> <<"433">>)
    @@ (RssiKey :> <<"-51">>) @@ (FreqKey :> <<"5180">>)
Field(key) == <<key, " ">> \o StandardValue[key]

\* The ssid field in its variants: with or without white space before and
\* after the value, quoted or not, the value a name, the absence marker or
\* empty.
SsidFields ==
    { <<SsidKey>> \o (IF pre THEN <<" ">> ELSE << >>)
        \o (IF quoted THEN <<Quote>> ELSE << >>)
        \o val
        \o (IF quoted THEN <<Quote>> ELSE << >>)
        \o (IF post THEN <<" ">> ELSE << >>) :
        pre \in BOOLEAN, post \in BOOLEAN, quoted \in BOOLEAN,
        val \in {<<NetworkName>>, <<AbsenceMarker>>, << >>} }

\* fields joined by a separator
RECURSIVE Joined(_, _)
Joined(fields, sep) ==
    IF fields = << >> THEN << >>
    ELSE IF Len(fields) = 1 THEN fields[1]
    ELSE fields[1] \o sep \o Joined(Tail(fields), sep)

Separators == {<<Comma, " ">>, <<LineFeed>>}
StateLines ==
    {<< >>, <<"Supplicant state: COMPLETED">>, <<"CONNECTED/CONNECTED">>,
     <<"DISCONNECTED/DISCONNECTED">>}

\* Up to MaxLines different keys in every order.
KeyOrders ==
    { o \in UNION { [1..n -> 1..Len(Keys)] : n \in 0..MaxLines } :
        \A i, j \in 1..Len(o) : o[i] = o[j] => i = j }

Dumps ==
    { Joined([i \in 1..Len(o) |-> Field(Keys[o[i]])] \o
             (IF st = << >> THEN << >> ELSE <<st>>), sep) :
        o \in KeyOrders, sep \in Separators, st \in StateLines }
    \cup
    { Joined(before \o <<f>> \o after, sep) :
        f \in SsidFields, sep \in Separators,
        before \in {<< >>, <<Field(RssiKey)>>},
        after \in {<< >>, <<Field(BssidKey)>>} }

StatusOutputs == {<<"Wifi is enabled">>, <<"Wifi is disabled">>, << >>}

NoOutput == [ok |-> FALSE, text |-> << >>]

StatusIdle ==
    /\ statusPc = "idle" /\ statusOut = NoOutput /\ dump = NoOutput
    /\ status = << >>

statusFrame ==
    <<regVars, entVars, hosts, requests, execVars, dnsVars,
      netVars, capVars, infoVars, scanVars, opVars>>

\* getStatus is called: `cmd wifi status`.
CmdWifiStatus ==
    /\ statusPc = "idle"
    /\ \E failed \in BOOLEAN, out \in StatusOutputs :
          statusOut' = [ok |-> ~failed, text |-> out]
    /\ statusPc' = "dumpsys"
    /\ UNCHANGED <<statusFrame, dump, status>>

\* The dumpsys command, whose output the executor returns trimmed, and the
\* record made of the two outputs.
DumpsysWifi ==
    /\ statusPc = "dumpsys"
    /\ \E failed \in BOOLEAN, text \in Dumps :
          /\ dump' = [ok |-> ~failed, text |-> TrimLine(text)]
          /\ status' = StatusOf(statusOut.text, TrimLine(text))
    /\ statusPc' = "done"
    /\ UNCHANGED <<statusFrame, statusOut>>

NextStatus == CmdWifiStatus \/ DumpsysWifi

\* ------------------------------------------------------------------------
\* refreshDevices interleaved with requests (src/src/index.ts)
\* ------------------------------------------------------------------------
\* refreshDevices awaits the listing and, for every device it queries, the
\* six property reads of getDeviceInfo; a device_select request that arrives
\* meanwhile runs DeviceManager.selectDevice at once.  AdbClient.exec reads
\* this.selectedDevice when it builds the command line, in the same turn in
\* which the command is issued.  Every serial is attached and ready, none is
\* cached.  History: reads, the serials the property reads of the query in
\* progress were directed at; from, per cache key, the serials the entry's
\* properties were read from.
NoRefresh == [pc |-> "idle", list |-> << >>, i |-> 0, reads |-> << >>,
              from |-> << >>]
RefreshIdle == refresh = NoRefresh

RefreshInit ==
    /\ attached = [s \in Serials |-> "device"]
    /\ selectedDevice \in Serials \cup {Null}
    /\ devices = << >>
    /\ legitSel = {selectedDevice} \ {Null}
    /\ last = NoOp
    /\ RefreshIdle

refreshFrame ==
    <<attached, last, entVars, hosts, requests, execVars, dnsVars, probeVars,
      saved, listing, wifi>>

\* refreshDevices is called: `adb devices -l` is awaited; a failed listing
\* throws.
RefreshStart ==
    /\ refresh.pc = "idle"
    /\ \E failed \in BOOLEAN, order \in Orderings(Serials) :
          refresh' = IF failed THEN [refresh EXCEPT !.pc = "threw"]
                     ELSE [refresh EXCEPT !.pc = "loop", !.i = 1,
                                          !.list = ListDevices(attached, order)]
    /\ UNCHANGED <<selectedDevice, devices, legitSel, refreshFrame>>

\* The loop reaches a device: one that needs a query is selected and
\* getDeviceInfo issues its first property read, to that device.
RefreshSelect ==
    /\ refresh.pc = "loop"
    /\ refresh.i <= Len(refresh.list)
    /\ LET d == refresh.list[refresh.i] IN
       IF NeedsQuery(d, devices)
       THEN /\ selectedDevice' = d.serial
            /\ refresh' = [refresh EXCEPT !.pc = "read", !.reads = <<d.serial>>]
       ELSE /\ selectedDevice' = selectedDevice
            /\ refresh' = [refresh EXCEPT !.i = refresh.i + 1]
    /\ UNCHANGED <<devices, legitSel, refreshFrame>>

\* A property read returns and the next one is issued, to the device that
\* is selected now.
RefreshRead ==
    /\ refresh.pc = "read"
    /\ Len(refresh.reads) < Len(GetProps)
    /\ refresh' = [refresh EXCEPT !.reads = Append(refresh.reads, selectedDevice)]
    /\ UNCHANGED <<selectedDevice, devices, legitSel, refreshFrame>>

\* The last read returns: getDeviceInfo makes the record, with the serial
\* that is selected now, and refreshDevices stores it under the serial of
\* the device the loop is at.
RefreshStore ==
    /\ refresh.pc = "read"
    /\ Len(refresh.reads) = Len(GetProps)
    /\ LET key == refresh.list[refresh.i].serial IN
       /\ devices' = (key :> GetDeviceInfo(selectedDevice)) @@ devices
       /\ refresh' = [refresh EXCEPT
             !.pc = "loop", !.i = refresh.i + 1, !.reads = << >>,
             !.from = (key :> { refresh.reads[k] : k \in 1..Len(refresh.reads) })
                      @@ refresh.from]
    /\ UNCHANGED <<selectedDevice, legitSel, refreshFrame>>

\* After the loop: entries of serials that are not listed are removed, a
\* selection that is not listed is cleared, and refreshDevices returns.
RefreshFinish ==
    /\ refresh.pc = "loop"
    /\ refresh.i > Len(refresh.list)
    /\ LET connected == SerialsOf(refresh.list) IN
       /\ devices' = [s \in (DOMAIN devices) \cap connected |-> devices[s]]
       /\ selectedDevice' = IF selectedDevice # Null /\ selectedDevice \notin connected
                            THEN Null ELSE selectedDevice
    /\ refresh' = [refresh EXCEPT !.pc = "done"]
    /\ UNCHANGED <<legitSel, refreshFrame>>

\* A device_select request arrives: deviceManager.selectDevice(serial) runs
\* before the handler's first await.
SelectDuringRefresh ==
    \E s \in Serials :
        /\ selectedDevice # s
        /\ selectedDevice' = s
        /\ legitSel' = legitSel \cup {s}
        /\ UNCHANGED <<devices, refresh, refreshFrame>>

NextRefresh ==
    \/ RefreshStart
    \/ RefreshSelect
    \/ RefreshRead
    \/ RefreshStore
    \/ RefreshFinish
    \/ SelectDuringRefresh


\* ------------------------------------------------------------------------
\* WifiCommands.listSavedNetworks (src/src/adb/wifi-commands.ts)
\* ------------------------------------------------------------------------
\* The output is a sequence of lines, a line a sequence of items as in the
\* scan results: runs of white space, quotes, words.  The words that end
\* with the letters ID, with or without a colon after them, whatever their
\* case: the id pattern can match at the end of each of them.
EndsWithId == {"ID:", "Id", "SSID:", "SSID"}
\* The words that end with SSID, with or without a colon.
EndsWithSsid == {"SSID:", "SSID"}

\* The digits a word starts with, for the words that start with a digit.
LeadingDigits == ("30" :> "30") @@ ("0" :> "0") @@ ("5GHome" :> "5")

\* /(?:Network\s+)?ID:?\s*(\d+)/i : group 1 of the leftmost match, << >>
\* when there is none.  The optional prefix does not change the group.
RECURSIVE IdMatch(_, _)
IdMatch(line, i) ==
    IF i > Len(line) THEN << >>
    ELSE LET after == DropLeading(SubSeq(line, i + 1, Len(line)))
         IN  IF /\ line[i] \in EndsWithId
                /\ after # << >> /\ Head(after) \in DOMAIN LeadingDigits
             THEN <<LeadingDigits[Head(after)]>>
             ELSE IdMatch(line, i + 1)

\* The longest prefix matched by [^"'\n]+ within a line.
RECURSIVE NameRun(_)
NameRun(t) ==
    IF t = << >> \/ Head(t) = Quote THEN << >>
    ELSE <<Head(t)>> \o NameRun(Tail(t))

\* /SSID:?\s*["']?([^"'\n]+)["']?/i with the key matched at item i: group
\* 1, << >> when the pattern does not match there.  When the group cannot
\* start after the white space and the quote, the engine gives the white
\* space back, and then the colon.
SavedSsidAt(line, i) ==
    LET rest    == SubSeq(line, i + 1, Len(line))
        sp      == rest # << >> /\ IsSpace(Head(rest))
        afterSp == IF sp THEN Tail(rest) ELSE rest
        q       == afterSp # << >> /\ Head(afterSp) = Quote
        afterQ  == IF q THEN Tail(afterSp) ELSE afterSp
    IN  IF NameRun(afterQ) # << >> THEN NameRun(afterQ)
        ELSE IF sp THEN NameRun(rest)
        ELSE IF line[i] = "SSID:" THEN <<":">>
        ELSE << >>

RECURSIVE SavedSsidMatch(_, _)
SavedSsidMatch(line, i) ==
    IF i > Len(line) THEN << >>
    ELSE IF line[i] \in EndsWithSsid /\ SavedSsidAt(line, i) # << >>
         THEN SavedSsidAt(line, i)
         ELSE SavedSsidMatch(line, i + 1)

\* ssidMatch ? ssidMatch[1].trim() : 'Unknown'
SsidOrUnknown(ssidMatch) ==
    IF ssidMatch # << >> THEN TrimLine(ssidMatch) ELSE <<Unknown>>

\* The body of the loop for line i: the records it pushes, none or one.  The
\* field `line` is history: the index of the line the record was made from.
ParseSavedLine(lines, i) ==
    LET trimmed == TrimLine(lines[i])
        idMatch == IdMatch(trimmed, 1)
    IN  IF trimmed = << >> THEN << >>
        ELSE IF idMatch # << >>
        THEN << [networkId |-> ParseInt(idMatch[1]),
                 ssid      |-> SsidOrUnknown(SavedSsidMatch(trimmed, 1)),
                 line      |-> i] >>
        ELSE << >>

RECURSIVE ParseSavedNetworks(_, _)
ParseSavedNetworks(lines, i) ==
    IF i > Len(lines) THEN << >>
    ELSE ParseSavedLine(lines, i) \o ParseSavedNetworks(lines, i + 1)

\* Lines to parse: an id field, an ssid field, both in either order, the
\* header and a row of the table `cmd wifi list-networks` prints, blank
\* lines.
IdFields ==
    { <<"ID:", " ", "30">>, <<"Network", " ", "ID:", " ", "0">>,
      <<"ID:", " ", NetworkName>> }
SavedSsidFields ==
    { <<"SSID:", " ">> \o (IF quoted THEN <<Quote>> ELSE << >>) \o name
        \o (IF quoted THEN <<Quote>> ELSE << >>) :
        quoted \in BOOLEAN, name \in {<<NetworkName>>, <<"5GHome">>} }
    \cup { <<"SSID:", " ", Quote, Quote>>, <<"SSID:">> }
SavedLines ==
    IdFields \cup SavedSsidFields
    \cup { a \o <<" ">> \o b : a \in IdFields, b \in SavedSsidFields }
    \cup { b \o <<" ">> \o a : a \in IdFields, b \in SavedSsidFields }
    \cup { << >>, <<"  ">>, <<" ", "ID:", " ", "30", " ">>,
           <<"Network", " ", "Id", "  ", "SSID", "  ", "Security type">>,
           <<"0", "  ", NetworkName, "  ", "wpa2">> }
SavedOutputs ==
    UNION { [1..n -> SavedLines] : n \in 1..MaxLines }

NoSaved == [pc |-> "idle", out |-> << >>, networks |-> << >>]
SavedIdle == saved = NoSaved

savedFrame ==
    <<regVars, entVars, hosts, requests, execVars, dnsVars, probeVars,
      refresh, listing, wifi>>

\* listSavedNetworks: the command, and the parse of its output when it
\* succeeded; the call throws when it failed.
ListSavedNetworks ==
    /\ saved.pc = "idle"
    /\ \E failed \in BOOLEAN, out \in SavedOutputs :
          saved' = IF failed THEN [saved EXCEPT !.pc = "threw"]
                   ELSE [pc |-> "done", out |-> out,
                         networks |-> ParseSavedNetworks(out, 1)]
    /\ UNCHANGED savedFrame

NextSaved == ListSavedNetworks

\* ------------------------------------------------------------------------
\* AdbClient.listDevices (src/src/index.ts)
\* ------------------------------------------------------------------------
\* The output of `adb devices -l` is a sequence of lines, the first one the
\* heading; a line is a sequence of items, words and runs of white space.
\* A property word and what split(':') makes of it.
KeyValue ==
    ("product:sdk_gphone" :> <<"product", "sdk_gphone">>)
    @@ ("model:Pixel_5" :> <<"model", "Pixel_5">>)
    @@ ("device:generic" :> <<"device", "generic">>)
    @@ ("transport_id:1" :> <<"transport_id", "1">>)
    @@ ("usb:1-1" :> <<"usb", "1-1">>)

\* const [key, value] = parts[i].split(':'), a word without colon being
\* its own key.
KeyOf(part) ==
    IF Len(part) = 1 /\ part[1] \in DOMAIN KeyValue
    THEN KeyValue[part[1]] ELSE <<part[1], "">>

\* The loop over parts[2..]: a recognised key sets its field.
RECURSIVE WithProperties(_, _, _)
WithProperties(device, parts, i) ==
    IF i > Len(parts) THEN device
    ELSE LET kv == KeyOf(parts[i])
             d  == CASE kv[1] = "product"      -> [device EXCEPT !.product = Value(kv[2])]
                     [] kv[1] = "model"        -> [device EXCEPT !.model = Value(kv[2])]
                     [] kv[1] = "device"       -> [device EXCEPT !.device = Value(kv[2])]
                     [] kv[1] = "transport_id" -> [device EXCEPT !.transportId = Value(kv[2])]
                     [] OTHER                  -> device
         IN  WithProperties(d, parts, i + 1)

\* The body of the loop for line i: the records it pushes, none or one.  The
\* state is the second part of the line, as it is.  The field `line` is
\* history: the index of the line the record was made from.
ParseDeviceLine(lines, i) ==
    LET parts == Split(TrimLine(lines[i]), << >>, << >>)
    IN  IF TrimLine(lines[i]) = << >> THEN << >>
        ELSE IF Len(parts) < 2 THEN << >>
        ELSE << WithProperties(
                  [serial |-> parts[1], state |-> parts[2],
                   product |-> NoValue, model |-> NoValue, device |-> NoValue,
                   transportId |-> NoValue, line |-> i], parts, 3) >>

\* stdout.split('\n').slice(1) and the loop over the lines.
RECURSIVE ParseDevices(_, _)
ParseDevices(lines, i) ==
    IF i > Len(lines) THEN << >>
    ELSE ParseDeviceLine(lines, i) \o ParseDevices(lines, i + 1)

\* Lines to parse: a serial, a state as adb prints it, properties.  adb
\* prints `no permissions` with an explanation after it, and states of a
\* device in another mode, such as recovery.
Heading == <<"List of devices attached">>
SerialTexts == {"emulator-5554", "R58M123ABC"}
StateTexts ==
    { <<"device">>, <<"offline">>, <<"unauthorized">>, <<"recovery">>,
      <<"no", " ", "permissions", " ", "(user in plugdev group)">> }
PropertyTexts ==
    { << >>,
      <<" ", "product:sdk_gphone", " ", "model:Pixel_5", " ", "device:generic",
        " ", "transport_id:1">>,
      <<" ", "usb:1-1", " ", "model:Pixel_5">> }
DeviceLines ==
    { <<s, "  ">> \o st \o props :
        s \in SerialTexts, st \in StateTexts, props \in PropertyTexts }
    \cup { << >>, <<"  ">>, <<"R58M123ABC">> }
ListingOutputs ==
    { <<Heading>> \o rest :
        rest \in UNION { [1..n -> DeviceLines] : n \in 0..MaxLines } }

NoListing == [pc |-> "idle", out |-> << >>, records |-> << >>]
ListingIdle == listing = NoListing

listingFrame ==
    <<regVars, entVars, hosts, requests, execVars, dnsVars, probeVars,
      refresh, saved, wifi>>

\* listDevices: the command, and the parse of its output when it succeeded;
\* the call throws when it failed.
AdbListDevices ==
    /\ listing.pc = "idle"
    /\ \E failed \in BOOLEAN, out \in ListingOutputs :
          listing' = IF failed THEN [listing EXCEPT !.pc = "threw"]
                     ELSE [pc |-> "done", out |-> out,
                           records |-> ParseDevices(out, 2)]
    /\ UNCHANGED listingFrame

NextListing == AdbListDevices

\* ------------------------------------------------------------------------
\* wifi_connect and wifi_disconnect (src/src/index.ts,
\* src/src/adb/wifi-commands.ts)
\* ------------------------------------------------------------------------
\* One request per behaviour, one step per executor command.  A device is
\* selected, so ensureDevice returns at once.  cmds is the log of the
\* commands issued: name, argument, the ssid and the password on the command
\* line (NoPassword when none is), and whether the command succeeded;
\* printedError, whether the output of connect-network contained 'error'.
\* wifi_disconnect is taken in its default mode, toggle.
NoPassword == "<undefined>"
Passwords  == {NoPassword, "", "hunter2"}
Securities == {"open", "owe", "wpa2", "wpa3"}
RequestedSsids == {<<NetworkName>>, <<"Cafe">>}

Command(name, arg, ssid, password, ok) ==
    [name |-> name, arg |-> arg, ssid |-> ssid, password |-> password, ok |-> ok]

NoWifi == [tool |-> "none", pc |-> "idle", ssid |-> << >>, security |-> "",
           password |-> NoPassword, cmds |-> << >>, printedError |-> FALSE,
           out |-> << >>, status |-> << >>, result |-> "none",
           response |-> "none"]
WifiIdle == wifi = NoWifi

wifiFrame ==
    <<regVars, entVars, hosts, requests, execVars, dnsVars, probeVars,
      refresh, saved, listing>>

\* !password
NoPasswordGiven(password) == password \in {NoPassword, ""}

\* (security === 'wpa2' || security === 'wpa3') && !password
NeedsPasswordWpa2Only(security, password) ==
    security = "wpa2" /\ NoPasswordGiven(password)
NeedsPassword(security, password) ==
    security \in {"wpa2", "wpa3"} /\ NoPasswordGiven(password)

\* if (password && security !== 'open') command += ` "${password}"`
PasswordArg(security, password) ==
    IF ~NoPasswordGiven(password) /\ security # "open" THEN password
    ELSE NoPassword

\* status.connected && status.ssid === ssid
VerifiedAnySsid(st, ssid) == st.connected
Verified(st, ssid) == st.connected /\ st.ssid.set /\ st.ssid.v = ssid

\* setEnabled(false) throws when the command failed; else the enable follows.
AfterDisableAlways(ok) == "enable"
AfterDisable(ok) == IF ok THEN "enable" ELSE "done"

\* What the verification query can print: an ssid field in its variants or
\* a bssid field, with or without a line that carries a state.
VerifyDumps ==
    { Joined(<<f>> \o (IF st = << >> THEN << >> ELSE <<st>>), <<LineFeed>>) :
        f \in SsidFields \cup {Field(BssidKey)}, st \in StateLines }
    \cup {<< >>}

\* The wifi_connect handler up to its first command: the password check.
WifiConnectTool ==
    /\ wifi.pc = "idle"
    /\ selectedDevice # Null
    /\ \E ssid \in RequestedSsids, security \in Securities, password \in Passwords :
          wifi' = [wifi EXCEPT
                     !.tool = "wifi_connect", !.ssid = ssid,
                     !.security = security, !.password = password,
                     !.pc = IF NeedsPassword(security, password)
                            THEN "done" ELSE "connect",
                     !.response = IF NeedsPassword(security, password)
                                  THEN "Error: Password is required for WPA2/WPA3 networks"
                                  ELSE "none"]
    /\ UNCHANGED wifiFrame

\* WifiCommands.connect: the connect-network command; a failed command and
\* an output that contains 'error' end the call with success=false.
ConnectNetwork ==
    /\ wifi.pc = "connect"
    /\ \E failed \in BOOLEAN, errorText \in BOOLEAN :
          LET cmd == Command("connect-network", wifi.security, wifi.ssid,
                             PasswordArg(wifi.security, wifi.password), ~failed)
          IN  wifi' = [wifi EXCEPT
                         !.cmds = Append(wifi.cmds, cmd),
                         !.printedError = errorText,
                         !.pc = IF failed \/ errorText THEN "done" ELSE "verify",
                         !.result = IF failed \/ errorText
                                    THEN "failed" ELSE "none",
                         !.response = IF failed \/ errorText
                                      THEN "error" ELSE "none"]
    /\ UNCHANGED wifiFrame

\* getStatus inside connect, first command.
VerifyCmdStatus ==
    /\ wifi.pc = "verify"
    /\ \E failed \in BOOLEAN, out \in StatusOutputs :
          wifi' = [wifi EXCEPT
                     !.cmds = Append(wifi.cmds,
                                 Command("cmd wifi status", "", << >>,
                                         NoPassword, ~failed)),
                     !.out = out, !.pc = "dumpsys"]
    /\ UNCHANGED wifiFrame

\* getStatus inside connect, second command, and the verdict of connect;
\* the handler goes on to its own status query when connect succeeded.
VerifyDumpsys ==
    /\ wifi.pc = "dumpsys"
    /\ \E failed \in BOOLEAN, text \in VerifyDumps :
          LET st == StatusOf(wifi.out, TrimLine(text))
              connected == Verified(st, wifi.ssid)
          IN  wifi' = [wifi EXCEPT
                         !.cmds = Append(wifi.cmds,
                                     Command("dumpsys wifi", "", << >>,
                                             NoPassword, ~failed)),
                         !.status = st,
                         !.result = IF connected THEN "success"
                                    ELSE "Failed to verify connection",
                         !.pc = IF connected THEN "report" ELSE "done",
                         !.response = IF connected THEN "none" ELSE "error"]
    /\ UNCHANGED wifiFrame

\* The handler's own getStatus after a successful connect: two commands,
\* then the success response.
ReportStatus ==
    /\ wifi.pc \in {"report", "report2"}
    /\ \E failed \in BOOLEAN :
          wifi' = [wifi EXCEPT
                     !.cmds = Append(wifi.cmds,
                                 Command(IF wifi.pc = "report"
                                         THEN "cmd wifi status" ELSE "dumpsys wifi",
                                         "", << >>, NoPassword, ~failed)),
                     !.pc = IF wifi.pc = "report" THEN "report2" ELSE "done",
                     !.response = IF wifi.pc = "report" THEN "none" ELSE "success"]
    /\ UNCHANGED wifiFrame

\* The wifi_disconnect handler, mode toggle, up to its first command.
WifiDisconnectTool ==
    /\ wifi.pc = "idle"
    /\ selectedDevice # Null
    /\ wifi' = [wifi EXCEPT !.tool = "wifi_disconnect", !.pc = "disable"]
    /\ UNCHANGED wifiFrame

\* setEnabled(false)
DisableWifi ==
    /\ wifi.pc = "disable"
    /\ \E failed \in BOOLEAN : LET ok == ~failed IN
          wifi' = [wifi EXCEPT
                     !.cmds = Append(wifi.cmds,
                                 Command("set-wifi-enabled", "disabled", << >>,
                                         NoPassword, ok)),
                     !.pc = AfterDisable(ok),
                     !.result = IF AfterDisable(ok) = "done" THEN "threw"
                                ELSE "none"]
    /\ UNCHANGED wifiFrame

\* setEnabled(true), after the pause; disconnect returns when it succeeded
\* and throws when it failed.
EnableWifi ==
    /\ wifi.pc = "enable"
    /\ \E failed \in BOOLEAN : LET ok == ~failed IN
          wifi' = [wifi EXCEPT
                     !.cmds = Append(wifi.cmds,
                                 Command("set-wifi-enabled", "enabled", << >>,
                                         NoPassword, ok)),
                     !.pc = "done",
                     !.result = IF ok THEN "returned" ELSE "threw"]
    /\ UNCHANGED wifiFrame

NextWifi ==
    \/ WifiConnectTool
    \/ ConnectNetwork
    \/ VerifyCmdStatus
    \/ VerifyDumpsys
    \/ ReportStatus
    \/ WifiDisconnectTool
    \/ DisableWifi
    \/ EnableWifi

\* ------------------------------------------------------------------------
\* Claims about the device registry (checked under Spec)
\* ------------------------------------------------------------------------

\* C1: with two or more ready devices attached and no selection made so far
\* (neither explicitly nor as the only ready device), every call of
\* ensureDeviceSelected whose enumeration succeeds fails with the ambiguity
\* error naming all ready serials, and never returns a serial.
C1_EnsureAlwaysAmbiguous ==
    (/\ last.op = "ensure"
     /\ Cardinality(ReadyNow) >= 2
     /\ legitSel = {}
     /\ last.kind # "listfail")
    => (last.kind = "ambiguous" /\ last.names = ReadyNow)

\* C2: after refreshDevices (through listDevices) the selection is the serial
\* selected before the call when that serial is in the fresh enumeration, and
\* none otherwise; never a different serial.
C2_RefreshKeepsOrClears ==
    (last.op = "list" /\ last.kind = "ok")
    => selectedDevice = (IF last.selBefore \in AttachedNow
                         THEN last.selBefore ELSE Null)

\* C3: the selection is none, a serial that was selected explicitly, or a
\* serial auto-selected while it was the only ready device; and an operation
\* other than an explicit select, run while two or more ready devices are
\* attached, leaves the selection as it was or clears it.
C3_SelectionIsLegitimate ==
    /\ selectedDevice = Null \/ selectedDevice \in legitSel
    /\ (last.op \in {"list", "ensure", "info"} /\ Cardinality(ReadyNow) >= 2)
       => selectedDevice \in {last.selBefore, Null}

\* C4: called with nothing selected, ensureDeviceSelected selects and returns
\* the ready serial when exactly one device is ready (whatever else is
\* attached in another state), fails with the no-device error and selects
\* nothing when no device is ready, and only ever returns a ready device.
C4_EnsureAutoSelectsOnlyReady ==
    (last.op = "ensure" /\ last.selBefore = Null /\ last.kind # "listfail")
    => /\ Cardinality(ReadyNow) = 1
          => (last.kind = "ok" /\ ReadyNow = {last.serial}
              /\ selectedDevice = last.serial)
       /\ Cardinality(ReadyNow) = 0
          => (last.kind = "nodevice" /\ selectedDevice = Null)
       /\ last.kind = "ok" => attached[last.serial] = "device"

\* C4 witness: an auto-selection made while another device is attached in a
\* state that is not ready.
C4_Witness ==
    /\ last.op = "ensure" /\ last.selBefore = Null /\ last.kind = "ok"
    /\ \E s \in Serials : attached[s] \in {"offline", "unauthorized"}

\* ------------------------------------------------------------------------
\* Claims about the enterprise bridge (checked under SpecEnterprise)
\* ------------------------------------------------------------------------
Count(log, c) == Cardinality({ i \in 1..Len(log) : log[i] = c })

\* C5: a result file in place when the trigger was issued is gone when the
\* request (having reached polling) returns, and its content is never what
\* the request returns.
C5_StaleDeletedNeverReturned ==
    (pc = "done" /\ staleAtTrigger /\ ret.kind \in {"delivered", "timeout"})
    => /\ ~(ret.kind = "delivered" /\ ret.stale)
       /\ ~(resFile.kind = "file" /\ resFile.pre)

\* C6: when the agent has written a valid result for the current request
\* after the trigger and while the host was still going to poll, and no
\* executor command failed, the call returns that result and not the timeout
\* failure; and the host never deletes a result written for the current
\* request without having read it.
C6_WrittenResultDelivered ==
    /\ (pc = "done" /\ wroteInWindow /\ ~execFailed)
       => (ret.kind = "delivered" /\ ret.from = calls)
    /\ ~lost

\* C7: a connect request with method peap or ttls and no password, or with
\* method tls lacking the client certificate or the private key, has returned
\* success=false and has issued no command to the executor.
C7_InvalidRequestIssuesNothing ==
    (/\ req.action = "connect_enterprise"
     /\ \/ req.eapMethod \in {"peap", "ttls"} /\ ~req.password
        \/ req.eapMethod = "tls" /\ (~req.clientCertificate \/ ~req.privateKey))
    => /\ pc = "done"
       /\ ret.kind = "validation" /\ ~ret.success
       /\ cmdLog = << >>

\* C7 witness: a tls request that supplied the certificate but not the key
\* has been rejected.
C7_Witness ==
    /\ pc = "done" /\ ret.kind = "validation"
    /\ req.eapMethod = "tls" /\ req.clientCertificate /\ ~req.privateKey

\* C8: when the companion package is not installed, a call that passed
\* validation issues the package query and nothing else, and returns a
\* failure that names the package to install.
C8_AbsentAgentOnlyQueried ==
    /\ (~appInstalled /\ pc \notin {"idle", "query"} /\ ret.kind # "validation")
       => (pc = "done" /\ ret.kind = "notinstalled")
    /\ ret.kind = "notinstalled"
       => /\ ~ret.success
          /\ ret.pkg = "com.example.wifimcpcompanion"
          /\ cmdLog = <<"pm">>

\* C8 witness: an installCertificate call has returned the not-installed
\* failure while a result file was sitting on the device.
C8_Witness ==
    /\ pc = "done" /\ ret.kind = "notinstalled" /\ ~appInstalled
    /\ req.action = "install_certificate" /\ resFile.kind = "file"

\* C9: within one call the package query precedes the command-file write, the
\* write precedes the trigger, the trigger precedes every removal and read of
\* the result file; and a call whose trigger failed has neither removed nor
\* read the result file.
C9_PhaseOrder ==
    /\ \A i \in 1..Len(cmdLog) :
          /\ cmdLog[i] \in {"rm", "cat"}
             => \E j \in 1..(i - 1) : cmdLog[j] = "broadcast"
          /\ cmdLog[i] = "broadcast"
             => \E j \in 1..(i - 1) : cmdLog[j] = "write"
          /\ cmdLog[i] = "write"
             => \E j \in 1..(i - 1) : cmdLog[j] = "pm"
    /\ ret.kind = "broadcastfail"
       => (pc = "done" /\ ~ret.success
           /\ cmdLog = <<"pm", "write", "broadcast">>)

\* C9 witness: a call whose trigger failed has returned, the result file that
\* was on the device still being there.
C9_Witness ==
    /\ pc = "done" /\ ret.kind = "broadcastfail"
    /\ staleAtTrigger /\ resFile.kind = "file"

\* C10: a call that polled and whose reads never yielded valid data returns
\* success=false with the timeout message; a call writes the command file at
\* most once and sends the trigger at most once.
C10_TimeoutNoRetry ==
    /\ (pc = "done" /\ Count(cmdLog, "cat") > 0 /\ got = NoFile)
       => /\ ret.kind = "timeout" /\ ~ret.success
          /\ ret.error \in {"Timeout waiting for connection result",
                            "Timeout waiting for certificate installation result"}
    /\ ret.kind = "timeout" => pc = "done"
    /\ Count(cmdLog, "write") <= 1
    /\ Count(cmdLog, "broadcast") <= 1

\* C10 witness: a call timed out while the result file held text that does
\* not parse.
C10_Witness ==
    /\ pc = "done" /\ ret.kind = "timeout"
    /\ resFile.kind = "file" /\ ~resFile.valid

\* C11: once a call polls, it issues at most MaxPolls reads of the result file
\* (one per interval of the timeout window), and, every executor command
\* returning, it ends, returning a delivered result or the timeout failure;
\* also when the file never appears or only ever holds text that does not
\* parse.
C11_PollingTerminates ==
    /\ [](Count(cmdLog, "cat") <= MaxPolls /\ polls <= MaxPolls)
    /\ (pc = "clear") ~> (pc = "done" /\ ret.kind \in {"delivered", "timeout"})

\* C11 witness: a call has done every read of its window, the file holding
\* text that does not parse, and has returned the timeout failure.
C11_Witness ==
    /\ pc = "done" /\ ret.kind = "timeout" /\ Count(cmdLog, "cat") = MaxPolls
    /\ resFile.kind = "file" /\ ~resFile.valid /\ ~execFailed

\* C12: the removal of the result file follows a read only when that read
\* obtained text that parses, it is then the last command of the call and the
\* call returns what the read obtained, whatever its success flag; a read
\* that obtained nothing or text that does not parse leaves the call polling
\* and is followed by no removal.
C12_DeleteIffParsed ==
    /\ got # NoFile => (got.kind = "file" /\ got.valid)
    /\ pc = "poll" => got = NoFile
    /\ pc = "cleanup" => (got # NoFile /\ cmdLog[Len(cmdLog)] = "cat")
    /\ (pc = "done" /\ got # NoFile)
       => /\ ret.kind = "delivered" /\ ret.success = got.success
          /\ Len(cmdLog) >= 2
          /\ cmdLog[Len(cmdLog)] = "rm" /\ cmdLog[Len(cmdLog) - 1] = "cat"
    /\ \A i \in 2..Len(cmdLog) :
          (cmdLog[i] = "rm" /\ cmdLog[i - 1] = "cat")
          => (i = Len(cmdLog) /\ got # NoFile /\ pc = "done")

\* C12 witness: a call whose first read obtained text that does not parse and
\* whose second read obtained a result with success=false has removed the
\* file and returned.
C12_Witness ==
    /\ pc = "done" /\ ret.kind = "delivered" /\ ~ret.success
    /\ cmdLog = <<"pm", "write", "broadcast", "rm", "cat", "cat", "rm">>
    /\ wroteInWindow /\ ~execFailed

\* C15: a request's poll takes whatever parsed result the one result file
\* holds: a request still polling has never read text that parses, whichever
\* request it was produced for, and a request that left the loop returns
\* exactly what its last read found.
C15_PollTakesAnyResult ==
    \A h \in Overlapping :
        /\ hosts[h].pc = "poll"
           => ~(hosts[h].saw.kind = "file" /\ hosts[h].saw.valid)
        /\ hosts[h].got # NoFile
           => (hosts[h].got = hosts[h].saw /\ hosts[h].got.valid)
        /\ hosts[h].ret.kind = "delivered"
           => hosts[h].ret.from = hosts[h].saw.from

\* C15 witness: while request k was polling, request h read the result the
\* agent produced for the broadcast of request k, deleted it and returned it,
\* its own broadcast not having been answered; request k has timed out.
C15_Witness ==
    \E h, k \in Overlapping :
        /\ h # k
        /\ hosts[h].pc = "done" /\ hosts[h].ret.kind = "delivered"
        /\ hosts[h].ret.from = k /\ hosts[h].overlapped
        /\ agent[k].stage = "done" /\ agent[h].stage = "recv"
        /\ hosts[k].pc = "done" /\ hosts[k].ret.kind = "timeout"
        /\ resFile = NoFile

\* ---- sequential enterprise calls (checked under SpecEnterprise) ----

\* C34: when the write of the command file failed, the call is over with a
\* failure, no trigger broadcast was sent and the agent has no request of
\* this call.  The write of call n failed iff the command file does not hold
\* n after the call's write command.
C34_FailedWriteNotTriggered ==
    LET Issued(c)   == \E i \in 1..Len(cmdLog) : cmdLog[i] = c
        failedWrite == Issued("write") /\ cmdFile # calls
    IN  failedWrite
        => /\ ~Issued("broadcast")
           /\ agent[calls].stage = "none"
           /\ pc = "done"
           /\ ret.kind \notin {"none", "delivered"}

\* C35: a result a call returns was produced by the agent for that call's
\* own request; in a sequence of calls one after the other, the result the
\* agent writes for an earlier call is not delivered to a later call.
C35_ResultOfOwnRequest ==
    ret.kind = "delivered" => ret.from = calls

\* ------------------------------------------------------------------------
\* Claims about concurrent requests (checked under SpecConcurrent)
\* ------------------------------------------------------------------------

\* C13: all commands issued on behalf of one request are directed at the same
\* device serial, whatever other requests run concurrently.
C13_OneSerialPerRequest ==
    \A p \in Procs : Cardinality(requests[p].targets) <= 1

\* C14: the command sequences of two state-mutating requests on the same
\* device never interleave: no request issues a command after the first
\* command of a request that began after its own first command.
C14_MutatingSequencesAtomic ==
    \A p \in Procs : ~requests[p].interleaved

\* ------------------------------------------------------------------------
\* Claims about the command executor (checked under SpecExec)
\* ------------------------------------------------------------------------

\* The outcomes in which the command ran and failed on the target.
TargetFailures == { o \in Outcomes : o.kind = "exit" /\ o.code # 0 }

\* C16: exec and shell return a result record for every outcome and never
\* raise; success is true iff exitCode is 0; when success is false stderr is
\* not empty.
C16_ExecAlwaysResolves ==
    call.via \in {"exec", "shell"}
    => /\ ~result.raised
       /\ result.success <=> (result.exitCode = 0)
       /\ ~result.success => result.stderr # << >>

\* C16 witness: a command whose spawn failed, which wrote nothing to stderr,
\* has been answered with success=false.
C16_Witness ==
    /\ call.via = "shell" /\ call.outcome.kind = "spawn"
    /\ ~result.success /\ result.stderr = SpawnFailed

\* C17: the result of a command that exceeded its timeout has success=false
\* and differs from the result of every command that ran and failed on the
\* target.
C17_TimeoutDistinguishable ==
    (call.via \in {"exec", "shell"} /\ call.outcome.kind = "timeout")
    => /\ ~result.success
       /\ \A o \in TargetFailures : ExecResult(o) # result

\* C18: what a caller observes for an environment-level fault (bridge binary
\* missing, spawn failure) differs from what it observes for every command
\* that ran and failed on the target.
C18_BridgeFaultDistinct ==
    (call.via \in {"exec", "shell"} /\ call.outcome.kind \in {"missing", "spawn"})
    => \A o \in TargetFailures : ExecResult(o) # result

\* ------------------------------------------------------------------------
\* Claims about dnsLookup (checked under SpecDns)
\* ------------------------------------------------------------------------

\* C19: the tiers are invoked in the order nslookup, getent, ping, none of
\* them twice; getent is invoked iff nslookup added no address, ping iff
\* neither nslookup nor getent did; the error field is set iff the address
\* list returned is empty.
C19_TierOrder ==
    /\ Len(tiers) <= 3 /\ Len(yields) = Len(tiers)
    /\ tiers = SubSeq(<<"nslookup", "getent", "ping">>, 1, Len(tiers))
    /\ Len(tiers) >= 2 => ~yields[1]
    /\ Len(tiers) >= 3 => (~yields[1] /\ ~yields[2])
    /\ dnsPc \in {"return", "done"}
       => /\ Len(tiers) >= 1
          /\ ~yields[1] => Len(tiers) >= 2
          /\ (~yields[1] /\ ~yields[2]) => Len(tiers) = 3
    /\ dnsPc = "done" => (dnsError <=> addresses = << >>)
    /\ dnsPc # "done" => ~dnsError

\* C19 witness: nslookup and getent gave nothing, ping gave the address, and
\* the result was returned without an error.
C19_Witness ==
    /\ dnsPc = "done" /\ tiers = <<"nslookup", "getent", "ping">>
    /\ yields = <<FALSE, FALSE, TRUE>>
    /\ addresses = <<IPv4Text>> /\ ~dnsError

\* The answer lines that carry an IPv4 address.
RECURSIVE IPv4AnswerLines(_, _, _)
IPv4AnswerLines(lines, i, inAnswer) ==
    IF i > Len(lines) THEN 0
    ELSE LET ans == inAnswer \/ lines[i].name
         IN  (IF ans /\ lines[i].address
                     /\ lines[i].text \in {IPv4Text, IPv4PortText}
              THEN 1 ELSE 0)
             + IPv4AnswerLines(lines, i + 1, ans)

\* C20: every address the nslookup tier returns is an IPv4 dotted address,
\* one per answer line that carries an IPv4 address: an answer line carrying
\* an IPv6 address adds nothing.
C20_PrimaryTierOnlyIPv4 ==
    tiers = <<"nslookup">>
    => /\ \A i \in 1..Len(addresses) : addresses[i] = IPv4Text
       /\ Len(addresses) = IPv4AnswerLines(answer, 1, FALSE)

\* ------------------------------------------------------------------------
\* Claims about checkInternet (checked under SpecInternet) and
\* checkCaptivePortal (checked under SpecCaptive)
\* ------------------------------------------------------------------------

\* C21: checkInternet probes its three endpoints in the fixed order; a probe
\* is issued only after every earlier probe failed (its command failed, or
\* its status code is neither the expected one nor in 200..399); the call
\* returns hasInternet=true naming the first endpoint whose probe succeeded;
\* the fallback ping is issued only after all three probes failed, and
\* hasInternet=false, with the error, is returned only after that ping
\* failed too.
C21_ProbeOrderAndFallback ==
    LET Good(i) == /\ probed[i].ok
                   /\ \/ probed[i].code = TestUrls[i].expected
                      \/ (probed[i].code >= 200 /\ probed[i].code < 400)
        n       == Len(probed)
    IN  /\ n <= 3 /\ Len(pinged) <= 1
        /\ \A i \in 1..n : probed[i].url = TestUrls[i].url
        /\ \A i \in 1..(n - 1) : ~Good(i)
        /\ pinged # << >> => (n = 3 /\ ~Good(3))
        /\ netPc # "done" => connectivity = NotReturned
        /\ netPc = "done" =>
              /\ n >= 1
              /\ Good(n) => (/\ connectivity.hasInternet
                             /\ connectivity.endpoint = TestUrls[n].url
                             /\ connectivity.error = None
                             /\ pinged = << >>)
              /\ ~Good(n) => (/\ n = 3 /\ Len(pinged) = 1
                              /\ connectivity.hasInternet
                                 = (pinged[1].ok /\ ~pinged[1].allLost))
              /\ connectivity.hasInternet
                 => connectivity.endpoint
                       = (IF pinged = << >> THEN TestUrls[n].url
                          ELSE PingEndpoint)
              /\ ~connectivity.hasInternet
                 => (/\ connectivity.error = NoEndpointsReached
                     /\ connectivity.endpoint = None)

\* C21 witness: the first probe's command failed, the second answered with a
\* code in 200..399 that is not the expected 204, and the call returned that
\* endpoint without probing the third and without the ping.
C21_Witness ==
    /\ netPc = "done" /\ Len(probed) = 2 /\ pinged = << >>
    /\ ~probed[1].ok /\ probed[2].ok /\ probed[2].code = 301
    /\ connectivity.hasInternet /\ connectivity.endpoint = TestUrls[2].url

\* C22: checkCaptivePortal decides on the probe outcome: 204 gives no portal
\* and no portalUrl whatever the redirect target; 301 or 302 with a redirect
\* target gives a portal at that target; 200 causes the content fetch, issued
\* in this case only, and gives a portal iff the fetch succeeds and returns
\* non-empty content; every other outcome gives no portal; portalUrl is set
\* iff isCaptive is true.
C22_CaptiveDecisionTable ==
    LET p == capProbe
    IN  /\ capCmds \in {<< >>, <<"probe">>, <<"probe", "fetch">>}
        /\ Len(capCmds) = 2 <=> (capPc \in {"done"} /\ p.ok /\ p.code = 200)
        /\ capPc \in {"idle", "probe"} <=> capCmds = << >>
        /\ capPc # "done" => portal = NoPortal
        /\ (portal.portalUrl # None) <=> portal.isCaptive
        /\ capPc = "done" =>
              /\ ~p.ok => (~portal.isCaptive /\ portal.error = CaptiveCheckFailed)
              /\ (p.ok /\ p.code = 204) => portal = NoPortal
              /\ (p.ok /\ p.code \in {301, 302} /\ p.target # None)
                 => (portal.isCaptive /\ portal.portalUrl = p.target)
              /\ (p.ok /\ p.code = 200)
                 => /\ portal.isCaptive
                       <=> (capFetch.ok /\ capFetch.stdout # << >>)
                    /\ portal.isCaptive => portal.portalUrl = captiveCheckUrl
              /\ (p.ok /\ p.code \notin {200, 204}
                       /\ ~(p.code \in {301, 302} /\ p.target # None))
                 => portal = NoPortal

\* C22 witness: the probe answered 200 with a redirect target printed, the
\* fetch returned content, and the portal is reported at the probe URL.
C22_Witness ==
    /\ capPc = "done" /\ capProbe.ok /\ capProbe.code = 200
    /\ capProbe.target # None
    /\ capFetch.ok /\ capFetch.stdout # << >>
    /\ portal.isCaptive /\ portal.portalUrl = captiveCheckUrl

\* ------------------------------------------------------------------------
\* Claims about the DeviceInfo cache (checked under Spec)
\* ------------------------------------------------------------------------

\* C23: when refreshDevices has completed, every cached serial is in the
\* enumeration it made and every device enumerated as ready is cached; no
\* device that was cached when it started was queried, and the entry of such
\* a device, if still enumerated, is the entry it had.
C23_CacheMatchesEnumeration ==
    last.refreshed
    => /\ DOMAIN devices \subseteq AttachedNow
       /\ ReadyNow \subseteq DOMAIN devices
       /\ last.queried \cap DOMAIN last.cached = {}
       /\ last.queried = ReadyNow \ DOMAIN last.cached
       /\ \A s \in DOMAIN last.cached :
             s \in AttachedNow => (s \in DOMAIN devices
                                   /\ devices[s] = last.cached[s])

\* C23 witness: a refresh that found one ready device cached and queried
\* another.
C23_Witness ==
    /\ last.refreshed /\ last.queried # {}
    /\ \E s \in DOMAIN last.cached : s \in ReadyNow

\* ------------------------------------------------------------------------
\* Claims about getDeviceInfo (checked under SpecDeviceInfo)
\* ------------------------------------------------------------------------

\* C24 as stated: getDeviceInfo returns a record in which exactly the fields
\* whose read failed hold the sentinel ('Unknown', 0 for the SDK number) and
\* every other field holds the value read.
C24_SentinelExactlyOnFailure ==
    infoPc = "done"
    => \A i \in 1..6 :
          LET field    == info[InfoFields[i]]
              sentinel == IF i = 5 THEN 0 ELSE "Unknown"
          IN  /\ ~reads[i].ok => field = sentinel
              /\ reads[i].ok => (/\ field # sentinel
                                 /\ i # 5 => field = reads[i].stdout)

\* C24 amended: getDeviceInfo returns a record after six reads, whatever
\* their outcomes; a field holds the sentinel iff its read failed or printed
\* nothing (the property is not set), and otherwise the value read, the SDK
\* number being that value parsed.
C24_SentinelOnFailureOrEmpty ==
    /\ infoPc \in {"return", "done"} <=> Len(reads) = 6
    /\ Len(reads) <= 6
    /\ infoPc = "done"
       => /\ info.serial = selectedDevice
          /\ \A i \in 1..6 :
                LET field    == info[InfoFields[i]]
                    sentinel == IF i = 5 THEN 0 ELSE "Unknown"
                IN  IF ~reads[i].ok \/ reads[i].stdout = ""
                    THEN field = sentinel
                    ELSE IF i = 5 THEN field = 30
                    ELSE field = reads[i].stdout

\* C24 witness: a record returned after one read failed, one printed
\* nothing and one printed a value.
C24_Witness ==
    /\ infoPc = "done"
    /\ ~reads[2].ok /\ reads[2].stdout # "" /\ info.brand = "Unknown"
    /\ reads[3].ok /\ reads[3].stdout = "" /\ info.manufacturer = "Unknown"
    /\ reads[1].ok /\ info.model = "value"
    /\ reads[5].ok /\ info.sdkVersion = 30

\* ------------------------------------------------------------------------
\* Claims about parseScanResults (checked under SpecScan)
\* ------------------------------------------------------------------------

\* The first run of text without white space in a line.
RECURSIVE FirstRun(_)
FirstRun(t) ==
    IF t = << >> THEN << >>
    ELSE IF Head(t) \in {" ", "  "}
         THEN << >>
         ELSE <<Head(t)>> \o FirstRun(Tail(t))
FirstWordOf(line) == FirstRun(DropLeading(line))

\* The lines of the output other than a header in the first place.
DataLines ==
    { i \in 1..Len(scanOut) :
        ~(i = 1 /\ \E j \in 1..Len(scanOut[1]) : scanOut[1][j] = "BSSID") }

\* C25: every record comes from a data line whose first run of text is six
\* colon-separated groups of two hexadecimal digits; the records are in the
\* order of their lines, no two from one line, and no more than there are
\* non-blank data lines.
C25_RecordsOnlyFromMacLines ==
    scanPc = "done"
    => /\ \A k \in 1..Len(scanRecords) :
             LET r == scanRecords[k]
             IN  /\ r.line \in DataLines
                 /\ FirstWordOf(scanOut[r.line])
                       \in {<<"84:18:3a:06:be:58">>, <<"AC:DE:48:00:11:22">>}
                 /\ <<r.bssid>> = FirstWordOf(scanOut[r.line])
       /\ \A k \in 1..(Len(scanRecords) - 1) :
             scanRecords[k].line < scanRecords[k + 1].line
       /\ Len(scanRecords)
             <= Cardinality({ i \in DataLines : DropLeading(scanOut[i]) # << >> })

\* C25 witness: two lines, the first with a MAC of five groups, the second
\* well formed: one record, made from the second line.
C25_Witness ==
    /\ scanPc = "done" /\ Len(scanOut) = 2
    /\ FirstWordOf(scanOut[1]) = <<"84:18:3a:06:be">>
    /\ Len(scanRecords) = 1 /\ scanRecords[1].line = 2

\* The markers that occur in the bracketed suffix of a line.
SuffixMarkers(line) ==
    UNION { MarkersIn[line[j]] :
              j \in { j \in 1..Len(line) :
                        /\ line[j] \in Brackets
                        /\ \E b \in 1..j : line[b] \in Brackets } }

\* C26: the security label of a record is the first of SAE, WPA3, WPA2, WPA,
\* WEP, OWE that occurs in the bracketed suffix of its line, and Open when
\* none does or the line has no suffix; a suffix with a WPA2 marker and a
\* WPA3 or SAE marker is never labelled WPA2.
C26_SecurityByPriority ==
    LET order == <<"SAE", "WPA3", "WPA2", "WPA", "WEP", "OWE">>
    IN  \A k \in 1..Len(scanRecords) :
            LET r     == scanRecords[k]
                marks == SuffixMarkers(scanOut[r.line])
                hits  == { i \in 1..6 : order[i] \in marks }
            IN  /\ hits = {} => r.security = "Open"
                /\ hits # {}
                   => r.security
                         = order[CHOOSE i \in hits : \A j \in hits : i <= j]
                /\ ("WPA2" \in marks /\ ({"WPA3", "SAE"} \cap marks # {}))
                   => r.security # "WPA2"

\* C26 witness: a network in WPA2/WPA3 transition mode, whose suffix has a
\* WPA2 group before an SAE group, labelled SAE.
C26_Witness ==
    /\ scanPc = "done" /\ Len(scanRecords) = 1
    /\ \E j \in 1..(Len(scanOut[1]) - 1) :
          /\ scanOut[1][j] = "[WPA2-PSK-CCMP]"
          /\ scanOut[1][j + 1] = "[RSN-SAE-CCMP]"
    /\ scanRecords[1].security = "SAE"

\* C27: for a line whose bracket-free prefix splits into a MAC, a
\* frequency, a signal, an age and the words of the ssid, the record has the
\* MAC as bssid, the numbers as frequency and rssi, and the words joined by
\* single spaces as ssid, '<hidden>' when there is no word; every such line
\* not taken for the header has its record; no record has an empty ssid or
\* an empty bssid.
C27_FieldsFromTokens ==
    LET WellFormed(parts) ==
            /\ Len(parts) >= 4
            /\ parts[1] \in {<<"84:18:3a:06:be:58">>, <<"AC:DE:48:00:11:22">>}
            /\ parts[2] \in {<<"2412">>, <<"5180">>}
            /\ parts[3] \in {<<"-51">>, <<"58">>}
        PartsOf(i) == Split(TrimLine(MainPart(TrimLine(scanOut[i]))),
                            << >>, << >>)
        Number == ("2412" :> 2412) @@ ("5180" :> 5180) @@ ("-51" :> -51)
                  @@ ("58" :> 58)
    IN  /\ \A k \in 1..Len(scanRecords) :
              LET r     == scanRecords[k]
                  parts == PartsOf(r.line)
              IN  /\ r.ssid # << >> /\ r.bssid # ""
                  /\ WellFormed(parts)
                     => /\ r.bssid = parts[1][1]
                        /\ r.frequency = Number[parts[2][1]]
                        /\ r.rssi = Number[parts[3][1]]
                        /\ r.ssid = IF Len(parts) >= 5 THEN JoinFrom(parts, 5)
                                    ELSE <<"<hidden>">>
        /\ scanPc = "done"
           => \A i \in DataLines :
                 WellFormed(PartsOf(i))
                 => \E k \in 1..Len(scanRecords) : scanRecords[k].line = i

\* C27 witness: a line whose ssid is two words with a wider run of white
\* space between them, and its record with the words joined by one space.
C27_Witness ==
    /\ scanPc = "done" /\ Len(scanRecords) = 1
    /\ \E j \in 1..Len(scanOut[1]) : scanOut[1][j] = "  "
    /\ scanRecords[1].ssid = <<"Home", " ", "Net">>
    /\ scanRecords[1].frequency = 5180 /\ scanRecords[1].rssi = 58
    /\ scanRecords[1].bssid \in {"84:18:3a:06:be:58", "AC:DE:48:00:11:22"}

\* ------------------------------------------------------------------------
\* Claims about getStatus (checked under SpecStatus)
\* ------------------------------------------------------------------------

\* Does the key occur in the dump, and the value printed after it: the items
\* between the key and the end of its field, white space and quotes apart.
KeyIn(text, key) == \E i \in 1..Len(text) : text[i] = key
RECURSIVE FieldValue(_)
FieldValue(t) ==
    IF t = << >> \/ Head(t) \in {",", "\n"} THEN << >>
    ELSE IF Head(t) \in {" ", "  ", "\""} THEN FieldValue(Tail(t))
    ELSE <<Head(t)>> \o FieldValue(Tail(t))
ValueIn(text, key) ==
    LET i == CHOOSE i \in 1..Len(text) : text[i] = key
    IN  FieldValue(SubSeq(text, i + 1, Len(text)))

\* C28: the ssid getStatus returns is never the absence marker and never
\* empty; when the value of the dump's ssid key is the absence marker or
\* empty, the record has no ssid, whatever white space and fields surround
\* the value.
C28_AbsentSsidOmitted ==
    statusPc = "done"
    => /\ status.ssid.set => status.ssid.v \notin {<<"<none>">>, << >>}
       /\ (/\ KeyIn(dump.text, "SSID:")
           /\ ValueIn(dump.text, "SSID:") \in {<<"<none>">>, << >>})
          => ~status.ssid.set

\* C29: whatever the order of the fields, each field of the record is the
\* value of its own key, and is not set when the dump does not have the key.
C29_FieldsFromOwnKeys ==
    LET Own(key, field, v) ==
            IF KeyIn(dump.text, key) THEN field.set /\ field.v = v
            ELSE ~field.set
    IN  statusPc = "done"
        => /\ ~KeyIn(dump.text, "SSID:") => ~status.ssid.set
           /\ (/\ KeyIn(dump.text, "SSID:")
               /\ ValueIn(dump.text, "SSID:") = <<"HomeNet">>)
              => (status.ssid.set /\ status.ssid.v = <<"HomeNet">>)
           /\ Own("BSSID:", status.bssid, "84:18:3a:06:be:58")
           /\ Own("IP address:", status.ipAddress, "192.168.1.5")
           /\ Own("Link speed:", status.linkSpeed, 433)
           /\ Own("RSSI:", status.rssi, -51)
           /\ Own("Frequency:", status.frequency, 5180)

\* C30: getStatus returns a record whatever the two commands did; connected
\* is true iff one of the two connection markers occurs in the dump; a dump
\* with an ssid and no marker gives connected=false and the ssid, a dump
\* with a marker and no ssid gives connected=true and no ssid.
C30_ConnectedIffMarker ==
    LET marker == \E i \in 1..Len(dump.text) :
                     dump.text[i] \in {"Supplicant state: COMPLETED",
                                       "CONNECTED/CONNECTED",
                                       "DISCONNECTED/DISCONNECTED"}
        named  == /\ KeyIn(dump.text, "SSID:")
                  /\ ValueIn(dump.text, "SSID:") = <<"HomeNet">>
    IN  /\ statusPc \in {"idle", "dumpsys", "done"}
        /\ statusPc = "done"
           => /\ status.connected <=> marker
              /\ (named /\ ~marker) => (~status.connected /\ status.ssid.set)
              /\ (marker /\ ~KeyIn(dump.text, "SSID:"))
                 => (status.connected /\ ~status.ssid.set)

\* C39: a dump that reports the state DISCONNECTED and has neither a
\* completed nor a connected state gives connected=false.
C39_DisconnectedNotConnected ==
    LET Has(item) == \E i \in 1..Len(dump.text) : dump.text[i] = item
    IN  (/\ statusPc = "done"
         /\ Has("DISCONNECTED/DISCONNECTED")
         /\ ~Has("Supplicant state: COMPLETED")
         /\ ~Has("CONNECTED/CONNECTED"))
        => ~status.connected

\* ------------------------------------------------------------------------
\* Claims about the interleaved refresh (checked under SpecRefresh)
\* ------------------------------------------------------------------------

\* C36: every entry of the DeviceInfo cache carries the serial it is stored
\* under, and all its properties were read from the device of that serial.
C36_EntryDescribesItsKey ==
    \A s \in DOMAIN devices :
        /\ devices[s].serial = s
        /\ refresh.from[s] = {s}

\* ------------------------------------------------------------------------
\* Claims about parseSavedNetworks (checked under SpecSaved)
\* ------------------------------------------------------------------------

\* An id token: the key ID: and, after white space, a number.  An ssid
\* token: the key SSID: .
HasIdToken(line) ==
    \E i \in 1..Len(line) :
        /\ line[i] = "ID:"
        /\ i + 2 <= Len(line) /\ line[i + 1] = " " /\ line[i + 2] \in {"30", "0"}
HasSsidToken(line) == \E i \in 1..Len(line) : line[i] = "SSID:"

\* C31: the records are, in order, one for each line that has an id token,
\* and none for any other line, whether or not it has an ssid token; the
\* record of a line without ssid token has the ssid 'Unknown'.
C31_RecordIffIdToken ==
    saved.pc = "done"
    => LET n == Len(saved.networks) IN
       /\ \A j \in 1..n : HasIdToken(saved.out[saved.networks[j].line])
       /\ \A i \in 1..Len(saved.out) :
             HasIdToken(saved.out[i])
             => Cardinality({ j \in 1..n : saved.networks[j].line = i }) = 1
       /\ \A j, k \in 1..n :
             j < k => saved.networks[j].line < saved.networks[k].line
       /\ \A j \in 1..n :
             ~HasSsidToken(saved.out[saved.networks[j].line])
             => saved.networks[j].ssid = <<"Unknown">>

\* ------------------------------------------------------------------------
\* Claims about AdbClient.listDevices (checked under SpecListing)
\* ------------------------------------------------------------------------

\* The words of a line: its items that are not white space.
WordsOf(line) == SelectSeq(line, LAMBDA x : x \notin {" ", "  "})

\* C33: the state of every record is one of the four declared states, and
\* a record is made of a line of two words or more only.
C33_StateIsDeclared ==
    listing.pc = "done"
    => \A j \in 1..Len(listing.records) :
          /\ listing.records[j].state \in
                { <<"device">>, <<"offline">>, <<"unauthorized">>,
                  <<"no", " ", "permissions">>, <<"no permissions">> }
          /\ Len(WordsOf(listing.out[listing.records[j].line])) >= 2

\* ------------------------------------------------------------------------
\* Claims about wifi_connect and wifi_disconnect (checked under SpecWifi)
\* ------------------------------------------------------------------------

\* C32: a wifi_connect request with security wpa2 or wpa3 and no password
\* ends with an error response and issues no connect-network command; with
\* security open the connect-network command carries no password, whatever
\* the request supplied.
C32_PasswordCheckedBeforeConnect ==
    wifi.tool = "wifi_connect"
    => /\ (/\ wifi.security \in {"wpa2", "wpa3"}
           /\ wifi.password \in {"<undefined>", ""})
          => /\ wifi.pc = "done"
             /\ wifi.response = "Error: Password is required for WPA2/WPA3 networks"
             /\ wifi.cmds = << >>
       /\ wifi.security = "open"
          => \A k \in 1..Len(wifi.cmds) : wifi.cmds[k].password = "<undefined>"

\* C32 witness: a wpa3 request without password has been answered with the
\* error, no command having been issued.
C32_Witness ==
    /\ wifi.tool = "wifi_connect" /\ wifi.pc = "done"
    /\ wifi.security = "wpa3" /\ wifi.password = "<undefined>"
    /\ wifi.response = "Error: Password is required for WPA2/WPA3 networks"
    /\ wifi.cmds = << >>

\* C37: connect returns success only when the status query made after the
\* connect-network command reported connected with the requested ssid; when
\* the connect-network command failed or printed an error, connect returns
\* a failure and no status query was issued; connect always returns.
C37_SuccessOnlyIfVerified ==
    wifi.tool = "wifi_connect"
    => /\ wifi.result = "success"
          => /\ wifi.status.connected
             /\ wifi.status.ssid.set /\ wifi.status.ssid.v = wifi.ssid
             /\ Len(wifi.cmds) >= 3
             /\ wifi.cmds[1].name = "connect-network" /\ wifi.cmds[1].ok
             /\ wifi.cmds[2].name = "cmd wifi status"
             /\ wifi.cmds[3].name = "dumpsys wifi"
       /\ wifi.result = "failed"
          => /\ wifi.pc = "done"
             /\ Len(wifi.cmds) = 1 /\ wifi.cmds[1].name = "connect-network"
       /\ (Len(wifi.cmds) >= 1 /\ (~wifi.cmds[1].ok \/ wifi.printedError))
          => wifi.result = "failed"
       /\ (wifi.pc = "done" /\ wifi.cmds # << >>)
          => wifi.result \in {"success", "failed", "Failed to verify connection"}

\* C37 witness: connect has returned success, the verification having found
\* the requested network connected.
C37_Witness ==
    /\ wifi.tool = "wifi_connect" /\ wifi.pc = "done"
    /\ wifi.result = "success" /\ wifi.response = "success"
    /\ wifi.ssid = <<"HomeNet">>
    /\ wifi.status.connected /\ wifi.status.ssid.v = <<"HomeNet">>
    /\ Len(wifi.cmds) = 5

\* C38: a toggle disconnect issues the disable command and then the enable
\* command; the enable command is issued iff the disable command succeeded;
\* the call returns normally iff both succeeded, and then the last command
\* sent is the enable command.
C38_ToggleOrder ==
    wifi.tool = "wifi_disconnect"
    => LET n == Len(wifi.cmds) IN
       /\ n <= 2
       /\ \A k \in 1..n : wifi.cmds[k].name = "set-wifi-enabled"
       /\ n >= 1 => wifi.cmds[1].arg = "disabled"
       /\ n = 2 => wifi.cmds[2].arg = "enabled"
       /\ n = 2 => wifi.cmds[1].ok
       /\ wifi.pc = "done"
          => /\ n = 2 <=> wifi.cmds[1].ok
             /\ wifi.result = "returned"
                <=> (n = 2 /\ wifi.cmds[1].ok /\ wifi.cmds[2].ok)
             /\ wifi.result \in {"returned", "threw"}
             /\ wifi.result = "returned" => wifi.cmds[n].arg = "enabled"

\* C38 witness: a toggle disconnect has returned normally after both
\* commands succeeded.
C38_Witness ==
    /\ wifi.tool = "wifi_disconnect" /\ wifi.pc = "done"
    /\ wifi.result = "returned"
    /\ Len(wifi.cmds) = 2 /\ wifi.cmds[1].ok /\ wifi.cmds[2].ok
    /\ wifi.cmds[2].arg = "enabled"

\* ------------------------------------------------------------------------
\* Specifications
\* ------------------------------------------------------------------------
EntIdle ==
    /\ pc = "idle" /\ req = NoReq /\ calls = 0 /\ cmdLog = << >> /\ polls = 0
    /\ cmdFile = NoCommand /\ resFile = NoFile /\ appInstalled = FALSE
    /\ agent = [i \in 1..MaxCalls |-> [stage |-> "none", cfg |-> 0]]
    /\ got = NoFile /\ ret = NoRet /\ lost = FALSE /\ staleAtTrigger = FALSE
    /\ execFailed = FALSE /\ wroteInWindow = FALSE

ProbeIdle == NetIdle /\ CapIdle /\ InfoIdle /\ ScanIdle /\ StatusIdle
OpIdle == RefreshIdle /\ SavedIdle /\ ListingIdle /\ WifiIdle
AuxIdle ==
    OverlapIdle /\ ConcurrentIdle /\ ExecIdle /\ DnsIdle /\ ProbeIdle /\ OpIdle

Init == RegInit /\ EntIdle /\ AuxIdle
Spec == Init /\ [][Next]_vars

InitEnterprise == EntInit /\ RegInit /\ AuxIdle
SpecEnterprise == InitEnterprise /\ [][NextEnterprise]_vars

InitDns ==
    /\ DnsIdle /\ RegInit /\ EntIdle /\ OverlapIdle /\ ConcurrentIdle /\ ExecIdle
    /\ ProbeIdle /\ OpIdle
SpecDns == InitDns /\ [][NextDns]_vars

InitExec ==
    /\ ExecIdle /\ RegInit /\ EntIdle /\ OverlapIdle /\ ConcurrentIdle /\ DnsIdle
    /\ ProbeIdle /\ OpIdle
SpecExec == InitExec /\ [][NextExec]_vars

InitOverlap ==
    /\ OverlapInit /\ RegInit /\ ConcurrentIdle /\ ExecIdle /\ DnsIdle
    /\ ProbeIdle /\ OpIdle
SpecOverlap == InitOverlap /\ [][NextOverlap]_vars

InitConcurrent ==
    /\ ConcurrentInit /\ EntIdle /\ OverlapIdle /\ ExecIdle /\ DnsIdle
    /\ ProbeIdle /\ OpIdle
SpecConcurrent == InitConcurrent /\ [][NextConcurrent]_vars

\* Every executor command returns (AdbClient.exec resolves on exit and on its
\* timeout), so a call that can take its next step takes it.
HostStep ==
    \/ IsCompanionAppInstalled \/ WriteCommandFile \/ Trigger
    \/ ClearResultFile \/ PollResultFile \/ CleanupResultFile \/ TimedOut
\* The state in which the last call of a behaviour starts when the calls
\* before it were rejected by validation (they issued no command): the
\* device is as the initial states have it.
InitPolling ==
    /\ RegInit /\ AuxIdle
    /\ \E c \in Requests :
          /\ Invalid(c)
          /\ req = c
          /\ ret = Failure("validation", ValidationMessage(c))
    /\ pc = "done" /\ calls = MaxCalls - 1
    /\ cmdLog = << >> /\ polls = 0
    /\ cmdFile \in {NoCommand, 0}
    /\ resFile \in {NoFile} \cup StaleContents
    /\ appInstalled \in BOOLEAN
    /\ agent = [i \in 1..MaxCalls |-> [stage |-> "none", cfg |-> 0]]
    /\ got = NoFile /\ lost = FALSE /\ staleAtTrigger = FALSE
    /\ execFailed = FALSE /\ wroteInWindow = FALSE
SpecEnterpriseFair ==
    InitPolling /\ [][NextEnterprise]_vars /\ WF_vars(HostStep)


InitInternet ==
    /\ RegInit /\ EntIdle /\ OverlapIdle /\ ConcurrentIdle /\ ExecIdle /\ DnsIdle
    /\ ProbeIdle /\ OpIdle
SpecInternet == InitInternet /\ [][NextInternet]_vars

InitCaptive ==
    /\ RegInit /\ EntIdle /\ OverlapIdle /\ ConcurrentIdle /\ ExecIdle /\ DnsIdle
    /\ ProbeIdle /\ OpIdle
SpecCaptive == InitCaptive /\ [][NextCaptive]_vars


InitDeviceInfo ==
    /\ InfoInit /\ NetIdle /\ CapIdle /\ ScanIdle /\ StatusIdle
    /\ EntIdle /\ OverlapIdle /\ ConcurrentIdle /\ ExecIdle /\ DnsIdle /\ OpIdle
SpecDeviceInfo == InitDeviceInfo /\ [][NextDeviceInfo]_vars


InitScan ==
    /\ RegInit /\ EntIdle /\ OverlapIdle /\ ConcurrentIdle /\ ExecIdle /\ DnsIdle
    /\ ProbeIdle /\ OpIdle
SpecScan == InitScan /\ [][NextScan]_vars


InitStatus ==
    /\ RegInit /\ EntIdle /\ OverlapIdle /\ ConcurrentIdle /\ ExecIdle /\ DnsIdle
    /\ ProbeIdle /\ OpIdle
SpecStatus == InitStatus /\ [][NextStatus]_vars


InitRefresh ==
    /\ RefreshInit /\ SavedIdle /\ ListingIdle /\ WifiIdle
    /\ EntIdle /\ OverlapIdle /\ ConcurrentIdle /\ ExecIdle /\ DnsIdle
    /\ ProbeIdle
SpecRefresh == InitRefresh /\ [][NextRefresh]_vars


InitSaved ==
    /\ RegInit /\ EntIdle /\ OverlapIdle /\ ConcurrentIdle /\ ExecIdle /\ DnsIdle
    /\ ProbeIdle /\ OpIdle
SpecSaved == InitSaved /\ [][NextSaved]_vars


InitListing ==
    /\ RegInit /\ EntIdle /\ OverlapIdle /\ ConcurrentIdle /\ ExecIdle /\ DnsIdle
    /\ ProbeIdle /\ OpIdle
SpecListing == InitListing /\ [][NextListing]_vars


InitWifi ==
    /\ ConcurrentInit /\ WifiIdle /\ RefreshIdle /\ SavedIdle /\ ListingIdle
    /\ EntIdle /\ OverlapIdle /\ ExecIdle /\ DnsIdle /\ ProbeIdle
SpecWifi == InitWifi /\ [][NextWifi]_vars

====
